---------------------------- MODULE Spec2Model ----------------------------
(***************************************************************************)
(* Model of jira-search: the SQLite mirror store (database.py) and the     *)
(* JQL / regex / natural query router (search.py).                         *)
(*                                                                         *)
(* Text is modelled at character level: a Python str is a sequence of      *)
(* one-character strings, so that strip(), split(), lower(), re.split and  *)
(* SQL LIKE are computed as the code and SQLite compute them.              *)
(***************************************************************************)
EXTENDS Integers, Sequences, FiniteSets, TLC

VARIABLES
    issues,      \* the issues table: a set of rows (records with a rowid)
    fts,         \* the issues_fts index: a set of [rowid, key, summary, labels]
    meta,        \* the sync_metadata table: no row before initialize(), then one
    lastUpsert,  \* history: for each key, the record most recently upserted
    now,         \* the wall clock read by datetime.now()
    wpc,         \* per writer: position inside upsert_issue_with_stats
    wrec,        \* per writer: the issue_data being upserted
    wexisting,   \* per writer: result of the SELECT key ... fetchone() probe
    wpresent,    \* per writer: was the key present when the INSERT OR REPLACE ran
    lastSearch,  \* the last AdvancedSearch.search call and what it returned
    jq,          \* filter interpreter run: the JQL query (structured input)
    jrow,        \* filter interpreter run: the row the predicate was applied to
    jpc,         \* filter interpreter run: "input" | "parsed" | "rejected" | "done"
    jres,        \* filter interpreter run: the (sql_where, params) pair
    jmatch,      \* filter interpreter run: did the WHERE clause select jrow
    squery,      \* sanitizer run: the raw free-text query
    sout,        \* sanitizer run: what _sanitize_fts_query returned
    spc,         \* sanitizer run: "idle" | "input" | "done"
    cpc,         \* cleanup_deleted_issues call: "idle" | "counted" | "done"
    ccutoff,     \* cleanup_deleted_issues call: cutoff_date
    ccount,      \* cleanup_deleted_issues call: count, the value it returns
    cremoved,    \* cleanup_deleted_issues call: keys its DELETE removed
    mrun,        \* a run of _process_issue_data: its argument and its outcome
    crun,        \* a run of load_config: the file and the outcome
    limiter,     \* RateLimiter: the clock, self.requests and the last answer
    sync         \* a run of the sync command and the upstream it reads

vars == <<issues, fts, meta, lastUpsert, now, wpc, wrec, wexisting, wpresent, lastSearch,
          jq, jrow, jpc, jres, jmatch, squery, sout, spc, cpc, ccutoff, ccount, cremoved,
          mrun, crun, limiter, sync>>

storeVars == <<issues, fts, meta, lastUpsert, now>>
writerVars == <<wpc, wrec, wexisting, wpresent>>
jqlVars == <<jq, jrow, jpc, jres, jmatch>>
sanVars == <<squery, sout, spc>>
purgeVars == <<cpc, ccutoff, ccount, cremoved>>
runVars == <<mrun, crun, limiter, sync>>

---------------------------------------------------------------------------
(* Python / SQL values                                                     *)

\* None / SQL NULL: a one-element sequence that is no character string.
NULL == <<"NULL">>

\* SQL three-valued logic.
T3 == "T"
F3 == "F"
U3 == "U"

Not3(a) == IF a = U3 THEN U3 ELSE IF a = T3 THEN F3 ELSE T3
And3(a, b) == IF a = F3 \/ b = F3 THEN F3 ELSE IF a = U3 \/ b = U3 THEN U3 ELSE T3
Or3(a, b) == IF a = T3 \/ b = T3 THEN T3 ELSE IF a = U3 \/ b = U3 THEN U3 ELSE F3
Bool3(b) == IF b THEN T3 ELSE F3

UpperLetters == <<"A","B","C","D","E","F","G","H","I","J","K","L","M",
                  "N","O","P","Q","R","S","T","U","V","W","X","Y","Z">>
LowerLetters == <<"a","b","c","d","e","f","g","h","i","j","k","l","m",
                  "n","o","p","q","r","s","t","u","v","w","x","y","z">>
Digits == {"0","1","2","3","4","5","6","7","8","9"}

\* The characters of the model in ASCII order (for BINARY collation).
Ascii == <<" ", "!", "\"", "%", "'", "(", ")", ",", "-",
           "0","1","2","3","4","5","6","7","8","9", "<", "=", ">">>
         \o UpperLetters \o <<"_">> \o LowerLetters \o <<"~">>

Ord(c) == CHOOSE i \in 1..Len(Ascii) : Ascii[i] = c

LowerChar(c) ==
    IF \E i \in 1..26 : UpperLetters[i] = c
    THEN LowerLetters[CHOOSE i \in 1..26 : UpperLetters[i] = c]
    ELSE c

UpperChar(c) ==
    IF \E i \in 1..26 : LowerLetters[i] = c
    THEN UpperLetters[CHOOSE i \in 1..26 : LowerLetters[i] = c]
    ELSE c

\* str.lower(), str.upper()
Lower(s) == [i \in 1..Len(s) |-> LowerChar(s[i])]
Upper(s) == [i \in 1..Len(s) |-> UpperChar(s[i])]

IsSpace(c) == c = " "

\* s[a:b] of Python, 0-based half-open, given here 1-based inclusive.
Slice(s, a, b) == IF a > b THEN <<>> ELSE SubSeq(s, a, b)

RECURSIVE LStripSet(_, _)
LStripSet(s, cs) ==
    IF s # <<>> /\ Head(s) \in cs THEN LStripSet(Tail(s), cs) ELSE s

RECURSIVE RStripSet(_, _)
RStripSet(s, cs) ==
    IF s # <<>> /\ s[Len(s)] \in cs THEN RStripSet(Slice(s, 1, Len(s) - 1), cs) ELSE s

\* str.strip() and str.strip(chars)
Strip(s) == RStripSet(LStripSet(s, {" "}), {" "})
StripQuotes(s) == RStripSet(LStripSet(s, {"\"", "'"}), {"\"", "'"})

StartsWith(s, p) == Len(s) >= Len(p) /\ SubSeq(s, 1, Len(p)) = p
EndsWith(s, p) == Len(s) >= Len(p) /\ SubSeq(s, Len(s) - Len(p) + 1, Len(s)) = p

\* `sub in s`
Contains(s, sub) ==
    \E i \in 1..(Len(s) - Len(sub) + 1) : SubSeq(s, i, i + Len(sub) - 1) = sub

\* str.split(sep) for a one-character separator
RECURSIVE SplitChar(_, _)
SplitChar(s, sep) ==
    IF \E i \in 1..Len(s) : s[i] = sep
    THEN LET i == CHOOSE k \in 1..Len(s) :
                      s[k] = sep /\ \A m \in 1..(k - 1) : s[m] # sep
         IN  <<Slice(s, 1, i - 1)>> \o SplitChar(Slice(s, i + 1, Len(s)), sep)
    ELSE <<s>>

\* sep.join(parts)
RECURSIVE Join(_, _)
Join(parts, sep) ==
    IF parts = <<>> THEN <<>>
    ELSE IF Len(parts) = 1 THEN parts[1]
    ELSE parts[1] \o sep \o Join(Tail(parts), sep)

\* Number of whitespace characters of s starting at position i.
RECURSIVE SpaceRun(_, _)
SpaceRun(s, i) ==
    IF i <= Len(s) /\ IsSpace(s[i]) THEN 1 + SpaceRun(s, i + 1) ELSE 0

\* Does the regular expression \s+<word>\s+ (re.IGNORECASE) match s at i?
\* The first \s+ is greedy and must run up to the word itself.
MatchesSepAt(s, word, i) ==
    LET n == SpaceRun(s, i)
        w == i + n
    IN  /\ n >= 1
        /\ w + Len(word) - 1 <= Len(s)
        /\ Upper(SubSeq(s, w, w + Len(word) - 1)) = Upper(word)
        /\ SpaceRun(s, w + Len(word)) >= 1

\* re.split(r"\s+<word>\s+", s, flags=re.IGNORECASE)
RECURSIVE ReSplit(_, _)
ReSplit(s, word) ==
    IF \E i \in 1..Len(s) : MatchesSepAt(s, word, i)
    THEN LET i == CHOOSE k \in 1..Len(s) :
                      MatchesSepAt(s, word, k)
                      /\ \A m \in 1..(k - 1) : ~MatchesSepAt(s, word, m)
             w == i + SpaceRun(s, i) + Len(word)
             e == w + SpaceRun(s, w)
         IN  <<Slice(s, 1, i - 1)>> \o ReSplit(Slice(s, e, Len(s)), word)
    ELSE <<s>>

\* Lexicographic order of two strings under BINARY collation.
RECURSIVE StrLess(_, _)
StrLess(a, b) ==
    IF b = <<>> THEN FALSE
    ELSE IF a = <<>> THEN TRUE
    ELSE IF Head(a) = Head(b) THEN StrLess(Tail(a), Tail(b))
    ELSE Ord(Head(a)) < Ord(Head(b))

\* SQLite's LIKE: % any run, _ any one character, ASCII case-insensitive.
RECURSIVE Like(_, _)
Like(p, s) ==
    IF p = <<>> THEN s = <<>>
    ELSE IF Head(p) = "%"
         THEN Like(Tail(p), s) \/ (s # <<>> /\ Like(p, Tail(s)))
    ELSE /\ s # <<>>
         /\ (Head(p) = "_" \/ LowerChar(Head(p)) = LowerChar(Head(s)))
         /\ Like(Tail(p), Tail(s))

---------------------------------------------------------------------------
(* Text literals                                                           *)

\* JQL field names: the keys of JQL_FIELD_MAPPING (search.py:32-52)
f_project == <<"p","r","o","j","e","c","t">>
f_assignee == <<"a","s","s","i","g","n","e","e">>
f_status == <<"s","t","a","t","u","s">>
f_priority == <<"p","r","i","o","r","i","t","y">>
f_created == <<"c","r","e","a","t","e","d">>
f_updated == <<"u","p","d","a","t","e","d">>
f_summary == <<"s","u","m","m","a","r","y">>
f_description == <<"d","e","s","c","r","i","p","t","i","o","n">>
f_reporter == <<"r","e","p","o","r","t","e","r">>
f_type == <<"t","y","p","e">>
f_issuetype == <<"i","s","s","u","e","t","y","p","e">>
f_key == <<"k","e","y">>
f_labels == <<"l","a","b","e","l","s">>
f_components == <<"c","o","m","p","o","n","e","n","t","s">>
f_team == <<"t","e","a","m">>
f_work_type == <<"w","o","r","k","_","t","y","p","e">>
f_product_manager == <<"p","r","o","d","u","c","t","_","m","a","n","a","g","e","r">>
f_px_impact_score == <<"p","x","_","i","m","p","a","c","t","_","s","c","o","r","e">>

\* Column names of the issues table
c_project_key == <<"p","r","o","j","e","c","t","_","k","e","y">>
c_assignee_display_name ==
    <<"a","s","s","i","g","n","e","e","_","d","i","s","p","l","a","y","_","n","a","m","e">>
c_status_name == <<"s","t","a","t","u","s","_","n","a","m","e">>
c_priority_name == <<"p","r","i","o","r","i","t","y","_","n","a","m","e">>
c_created == <<"c","r","e","a","t","e","d">>
c_updated == <<"u","p","d","a","t","e","d">>
c_summary == <<"s","u","m","m","a","r","y">>
c_description == <<"d","e","s","c","r","i","p","t","i","o","n">>
c_reporter_display_name ==
    <<"r","e","p","o","r","t","e","r","_","d","i","s","p","l","a","y","_","n","a","m","e">>
c_issue_type == <<"i","s","s","u","e","_","t","y","p","e">>
c_key == <<"k","e","y">>
c_labels == <<"l","a","b","e","l","s">>
c_components == <<"c","o","m","p","o","n","e","n","t","s">>
c_custom_12313240 == <<"c","u","s","t","o","m","_","1","2","3","1","3","2","4","0">>
c_custom_12320040 == <<"c","u","s","t","o","m","_","1","2","3","2","0","0","4","0">>
c_custom_12316752 == <<"c","u","s","t","o","m","_","1","2","3","1","6","7","5","2">>
c_custom_12322244 == <<"c","u","s","t","o","m","_","1","2","3","2","2","2","4","4">>

\* Operators and keywords
op_ne == <<"!","=">>
op_eq == <<"=">>
op_in == <<"I","N">>
op_gt == <<">">>
op_ge == <<">","=">>
op_lt == <<"<">>
op_le == <<"<","=">>
op_tilde == <<"~">>
kw_LIKE == <<"L","I","K","E">>
kw_NOT == <<"N","O","T">>
kw_IS == <<"I","S">>
kw_NULL == <<"N","U","L","L">>
kw_OR == <<"O","R">>
kw_AND == <<"A","N","D">>
kw_Q == <<"?">>
kw_LP == <<"(">>
kw_RP == <<")">>
kw_COMMA == <<",">>
t_null == <<"n","u","l","l">>
t_currentuser == <<"c","u","r","r","e","n","t","u","s","e","r","(",")">>
t_placeholder ==
    <<"_","_","C","U","R","R","E","N","T","_","U","S","E","R","_","P","L","A","C","E","H","O",
      "L","D","E","R","_","_">>

---------------------------------------------------------------------------
(* Filter-Language Interpreter: search.py, AdvancedSearch._parse_jql       *)

\* JQL_FIELD_MAPPING.get(name): the column, or NULL for an unmapped field.
JQL_FIELD_MAPPING ==
    << <<f_project, c_project_key>>,
       <<f_assignee, c_assignee_display_name>>,
       <<f_status, c_status_name>>,
       <<f_priority, c_priority_name>>,
       <<f_created, c_created>>,
       <<f_updated, c_updated>>,
       <<f_summary, c_summary>>,
       <<f_description, c_description>>,
       <<f_reporter, c_reporter_display_name>>,
       <<f_type, c_issue_type>>,
       <<f_issuetype, c_issue_type>>,
       <<f_key, c_key>>,
       <<f_labels, c_labels>>,
       <<f_components, c_components>>,
       <<f_team, c_custom_12313240>>,
       <<f_work_type, c_custom_12320040>>,
       <<f_product_manager, c_custom_12316752>>,
       <<f_px_impact_score, c_custom_12322244>> >>

MappingGet(name) ==
    IF \E i \in 1..Len(JQL_FIELD_MAPPING) : JQL_FIELD_MAPPING[i][1] = name
    THEN JQL_FIELD_MAPPING[CHOOSE i \in 1..Len(JQL_FIELD_MAPPING) :
                               JQL_FIELD_MAPPING[i][1] = name][2]
    ELSE NULL

\* A parse outcome: (sql_condition, parameters), or a raised JQLError.
Compiled(sql, params) == [ok |-> TRUE, sql |-> sql, params |-> params]
JQLError == [ok |-> FALSE, sql |-> <<>>, params |-> <<>>]

\* The four LIKE/equality parameters of one value of a flattened list column.
ListParams(value) ==
    << value,
       value \o <<",", "%">>,
       <<"%", ",", " ">> \o value,
       <<"%", ",", " ">> \o value \o <<",", "%">> >>

\* f"({c} = ? OR {c} LIKE ? OR {c} LIKE ? OR {c} LIKE ?)"
ListEqualsSql(c) ==
    kw_LP \o c \o <<" ">> \o op_eq \o <<" ">> \o kw_Q \o <<" ">> \o kw_OR \o <<" ">>
          \o c \o <<" ">> \o kw_LIKE \o <<" ">> \o kw_Q \o <<" ">> \o kw_OR \o <<" ">>
          \o c \o <<" ">> \o kw_LIKE \o <<" ">> \o kw_Q \o <<" ">> \o kw_OR \o <<" ">>
          \o c \o <<" ">> \o kw_LIKE \o <<" ">> \o kw_Q \o kw_RP

ListNotEqualsSql_NoNullArm(c) ==
    kw_LP \o kw_LP
          \o c \o <<" ">> \o op_ne \o <<" ">> \o kw_Q \o <<" ">> \o kw_AND \o <<" ">>
          \o c \o <<" ">> \o kw_NOT \o <<" ">> \o kw_LIKE \o <<" ">> \o kw_Q
          \o <<" ">> \o kw_AND \o <<" ">>
          \o c \o <<" ">> \o kw_NOT \o <<" ">> \o kw_LIKE \o <<" ">> \o kw_Q
          \o <<" ">> \o kw_AND \o <<" ">>
          \o c \o <<" ">> \o kw_NOT \o <<" ">> \o kw_LIKE \o <<" ">> \o kw_Q
          \o kw_RP \o kw_RP

\* f"({c} IS NULL OR ({c} != ? AND {c} NOT LIKE ? AND {c} NOT LIKE ? AND
\*    {c} NOT LIKE ?))"
ListNotEqualsSql(c) ==
    kw_LP \o c \o <<" ">> \o kw_IS \o <<" ">> \o kw_NULL \o <<" ">> \o kw_OR
          \o <<" ">> \o kw_LP
          \o c \o <<" ">> \o op_ne \o <<" ">> \o kw_Q \o <<" ">> \o kw_AND \o <<" ">>
          \o c \o <<" ">> \o kw_NOT \o <<" ">> \o kw_LIKE \o <<" ">> \o kw_Q
          \o <<" ">> \o kw_AND \o <<" ">>
          \o c \o <<" ">> \o kw_NOT \o <<" ">> \o kw_LIKE \o <<" ">> \o kw_Q
          \o <<" ">> \o kw_AND \o <<" ">>
          \o c \o <<" ">> \o kw_NOT \o <<" ">> \o kw_LIKE \o <<" ">> \o kw_Q
          \o kw_RP \o kw_RP

\* f"{db_column} {sql_op} ?"
SimpleSql(c, sql_op) == c \o <<" ">> \o sql_op \o <<" ">> \o kw_Q

IsListColumn(c) == c \in {c_labels, c_components}

\* values = [v.strip().strip("\"'") for v in values_str.split(",")]
InValues(value_part) ==
    LET values_str == Strip(Slice(value_part, 2, Len(value_part) - 1))
        raw == SplitChar(values_str, ",")
    IN  [i \in 1..Len(raw) |-> StripQuotes(Strip(raw[i]))]

RECURSIVE Flatten(_)
Flatten(ss) == IF ss = <<>> THEN <<>> ELSE Head(ss) \o Flatten(Tail(ss))

\* The IN branch of _parse_operator_condition (search.py:262-293).
InCondition(db_column, value_part) ==
    IF ~(StartsWith(value_part, kw_LP) /\ EndsWith(value_part, kw_RP))
    THEN JQLError
    ELSE LET values == InValues(value_part) IN
         IF IsListColumn(db_column)
         THEN Compiled(
                kw_LP \o Join([i \in 1..Len(values) |-> ListEqualsSql(db_column)],
                              <<" ">> \o kw_OR \o <<" ">>) \o kw_RP,
                Flatten([i \in 1..Len(values) |-> ListParams(values[i])]))
         ELSE Compiled(
                db_column \o <<" ">> \o op_in \o <<" ">> \o kw_LP
                    \o Join([i \in 1..Len(values) |-> kw_Q], kw_COMMA) \o kw_RP,
                values)

\* A ~ branch that splices the value into the SQL text.
LikeCondition_Inline(db_column, value_part) ==
    Compiled(db_column \o <<" ">> \o kw_LIKE \o <<" ", "'", "%">>
                 \o StripQuotes(value_part) \o <<"%", "'">>,
             <<>>)

\* The ~ branch (search.py:295-299).
LikeCondition(db_column, value_part) ==
    Compiled(SimpleSql(db_column, kw_LIKE),
             << <<"%">> \o StripQuotes(value_part) \o <<"%">> >>)

\* The branch of the simple operators =, !=, >, >=, <, <= (search.py:301-353).
SimpleCondition(db_column, sql_op, value_part) ==
    LET stripped == StripQuotes(value_part)
        isNull == Lower(stripped) = t_null
        value == IF Lower(stripped) = t_currentuser THEN t_placeholder ELSE stripped
    IN  IF isNull /\ sql_op = op_eq
        THEN Compiled(db_column \o <<" ">> \o kw_IS \o <<" ">> \o kw_NULL, <<>>)
        ELSE IF isNull /\ sql_op = op_ne
        THEN Compiled(db_column \o <<" ">> \o kw_IS \o <<" ">> \o kw_NOT
                          \o <<" ">> \o kw_NULL, <<>>)
        ELSE IF IsListColumn(db_column) /\ sql_op = op_eq
        THEN Compiled(ListEqualsSql(db_column), ListParams(value))
        ELSE IF IsListColumn(db_column) /\ sql_op = op_ne
        THEN Compiled(ListNotEqualsSql(db_column), ListParams(value))
        ELSE Compiled(SimpleSql(db_column, sql_op), <<value>>)

\* AdvancedSearch._parse_operator_condition
parse_operator_condition(condition, jql_op, sql_op) ==
    LET parts == ReSplit(condition, jql_op) IN
    IF Len(parts) # 2 THEN JQLError
    ELSE LET field_name == Strip(parts[1])
             value_part == Strip(parts[2])
             db_column == MappingGet(Lower(field_name))
         IN  IF db_column = NULL THEN JQLError
             ELSE IF sql_op = op_in THEN InCondition(db_column, value_part)
             ELSE IF sql_op = kw_LIKE THEN LikeCondition(db_column, value_part)
             ELSE SimpleCondition(db_column, sql_op, value_part)

\* The (jql_op, sql_op) table of _parse_jql_condition, in the order it is tried.
operators ==
    << <<op_ne, op_ne>>, <<op_eq, op_eq>>, <<op_in, op_in>>, <<op_gt, op_gt>>,
       <<op_ge, op_ge>>, <<op_lt, op_lt>>, <<op_le, op_le>>, <<op_tilde, kw_LIKE>> >>

\* The test of one table entry against the condition (search.py:226-230).
OperatorPresent(condition, jql_op) ==
    IF jql_op = op_ne
    THEN Contains(condition, <<" ">> \o op_ne \o <<" ">>)
    ELSE Contains(Upper(condition), <<" ">> \o Upper(jql_op) \o <<" ">>)

\* AdvancedSearch._parse_jql_condition
parse_jql_condition(cond) ==
    LET condition == Strip(cond) IN
    IF \E i \in 1..Len(operators) : OperatorPresent(condition, operators[i][1])
    THEN LET i == CHOOSE k \in 1..Len(operators) :
                      /\ OperatorPresent(condition, operators[k][1])
                      /\ \A m \in 1..(k - 1) : ~OperatorPresent(condition, operators[m][1])
         IN  parse_operator_condition(condition, operators[i][1], operators[i][2])
    ELSE JQLError

\* The loop over and_parts: conditions.append / params.extend, in order.
RECURSIVE ParseParts(_)
ParseParts(and_parts) ==
    IF and_parts = <<>> THEN <<>>
    ELSE <<parse_jql_condition(Strip(Head(and_parts)))>> \o ParseParts(Tail(and_parts))

\* AdvancedSearch._parse_jql
parse_jql(jql_query) ==
    LET query == Strip(jql_query) IN
    IF query = <<>> THEN JQLError
    ELSE LET parsed == ParseParts(ReSplit(query, kw_AND)) IN
         IF \E i \in 1..Len(parsed) : ~parsed[i].ok THEN JQLError
         ELSE Compiled(
                Join([i \in 1..Len(parsed) |-> parsed[i].sql],
                     <<" ">> \o kw_AND \o <<" ">>),
                Flatten([i \in 1..Len(parsed) |-> parsed[i].params]))

---------------------------------------------------------------------------
(* SQLite's evaluation of a compiled WHERE clause against one row          *)

\* The value of a column of a row; a column the model does not carry is NULL.
ColumnValue(row, c) ==
    IF c = c_key THEN row.key
    ELSE IF c = c_summary THEN row.summary
    ELSE IF c = c_assignee_display_name THEN row.assignee_display_name
    ELSE IF c = c_updated THEN row.updated
    ELSE IF c = c_labels THEN row.labels
    ELSE IF c = c_project_key THEN row.project_key
    ELSE NULL

\* The SQL text cut into tokens: blanks separate, ( ) , stand alone.
SqlTokens(s) ==
    LET punct(i) == s[i] \in {"(", ")", ","}
        delim(i) == s[i] = " " \/ punct(i)
        starts == {i \in 1..Len(s) :
                      /\ s[i] # " "
                      /\ (punct(i) \/ i = 1 \/ delim(i - 1))}
        last(i) == IF punct(i) THEN i
                   ELSE CHOOSE j \in i..Len(s) :
                            /\ \A m \in i..j : ~delim(m)
                            /\ (j = Len(s) \/ delim(j + 1))
        nth(k) == CHOOSE i \in starts : Cardinality({m \in starts : m < i}) = k - 1
    IN  [k \in 1..Cardinality(starts) |-> SubSeq(s, nth(k), last(nth(k)))]

\* x <op> ? for a bound text parameter, NULL-propagating.
Compare(op, x, y) ==
    IF x = NULL \/ y = NULL THEN U3
    ELSE IF op = op_eq THEN Bool3(x = y)
    ELSE IF op = op_ne THEN Bool3(x # y)
    ELSE IF op = op_lt THEN Bool3(StrLess(x, y))
    ELSE IF op = op_le THEN Bool3(StrLess(x, y) \/ x = y)
    ELSE IF op = op_gt THEN Bool3(StrLess(y, x))
    ELSE IF op = op_ge THEN Bool3(StrLess(y, x) \/ x = y)
    ELSE U3

\* x LIKE ?
Like3(x, pattern) == IF x = NULL \/ pattern = NULL THEN U3 ELSE Bool3(Like(pattern, x))

\* Evaluation state: the value so far, the tokens and parameters left.
EvalState(v, t, p) == [v |-> v, t |-> t, p |-> p]
EvalError == [v |-> U3, t |-> << <<"!">> >>, p |-> <<>>]

Drop(s, n) == Slice(s, n + 1, Len(s))

\* <column> IS [NOT] NULL | <column> [NOT] LIKE ? | <column> IN (?,...) |
\* <column> <op> ?
SqlPredicate(t, p, row) ==
    LET x == ColumnValue(row, t[1])
        k == t[2]
    IN  IF k = kw_IS /\ Len(t) >= 3 /\ t[3] = kw_NULL
        THEN EvalState(Bool3(x = NULL), Drop(t, 3), p)
        ELSE IF k = kw_IS /\ Len(t) >= 4 /\ t[3] = kw_NOT /\ t[4] = kw_NULL
        THEN EvalState(Bool3(x # NULL), Drop(t, 4), p)
        ELSE IF k = kw_LIKE /\ Len(t) >= 3 /\ t[3] = kw_Q /\ p # <<>>
        THEN EvalState(Like3(x, p[1]), Drop(t, 3), Tail(p))
        ELSE IF k = kw_NOT /\ Len(t) >= 4 /\ t[3] = kw_LIKE /\ t[4] = kw_Q /\ p # <<>>
        THEN EvalState(Not3(Like3(x, p[1])), Drop(t, 4), Tail(p))
        ELSE IF k = op_in /\ Len(t) >= 4 /\ t[3] = kw_LP
                          /\ \E j \in 4..Len(t) : t[j] = kw_RP
        THEN LET e == CHOOSE j \in 4..Len(t) :
                          t[j] = kw_RP /\ \A m \in 4..(j - 1) : t[m] # kw_RP
                 n == Cardinality({j \in 4..(e - 1) : t[j] = kw_Q})
             IN  IF n > Len(p) THEN EvalError
                 ELSE EvalState(
                        IF x = NULL THEN U3
                        ELSE Bool3(\E j \in 1..n : p[j] = x),
                        Drop(t, e), Drop(p, n))
        ELSE IF k \in {op_eq, op_ne, op_lt, op_le, op_gt, op_ge}
                /\ Len(t) >= 3 /\ t[3] = kw_Q /\ p # <<>>
        THEN EvalState(Compare(k, x, p[1]), Drop(t, 3), Tail(p))
        ELSE EvalError

RECURSIVE SqlOr(_, _, _), SqlOrTail(_, _), SqlAnd(_, _, _), SqlAndTail(_, _),
          SqlPrimary(_, _, _)

\* expr := and-expr (OR and-expr)*
SqlOr(t, p, row) == SqlOrTail(SqlAnd(t, p, row), row)

SqlOrTail(a, row) ==
    IF a.t # <<>> /\ Head(a.t) = kw_OR
    THEN LET b == SqlAnd(Tail(a.t), a.p, row)
         IN  SqlOrTail(EvalState(Or3(a.v, b.v), b.t, b.p), row)
    ELSE a

\* and-expr := primary (AND primary)*
SqlAnd(t, p, row) == SqlAndTail(SqlPrimary(t, p, row), row)

SqlAndTail(a, row) ==
    IF a.t # <<>> /\ Head(a.t) = kw_AND
    THEN LET b == SqlPrimary(Tail(a.t), a.p, row)
         IN  SqlAndTail(EvalState(And3(a.v, b.v), b.t, b.p), row)
    ELSE a

\* primary := ( expr ) | predicate
SqlPrimary(t, p, row) ==
    IF Len(t) < 2 THEN EvalError
    ELSE IF Head(t) = kw_LP
    THEN LET inner == SqlOr(Tail(t), p, row)
         IN  IF inner.t # <<>> /\ Head(inner.t) = kw_RP
             THEN EvalState(inner.v, Tail(inner.t), inner.p)
             ELSE EvalError
    ELSE SqlPredicate(t, p, row)

\* Does `WHERE <sql> ` with the bound parameters select the row?
WhereSelects(sql, params, row) ==
    LET r == SqlOr(SqlTokens(sql), params, row)
    IN  r.t = <<>> /\ r.p = <<>> /\ r.v = T3

---------------------------------------------------------------------------
(* Bounds and input domains                                                *)

MaxLabels == 3      \* most names in one flattened labels list
MaxInValues == 2    \* most values in one IN (...) list
MaxRowid == 2       \* rowids the issues table hands out in one run
MaxTime == 1        \* clock ticks in one run

Writers == {"w1", "w2"}

v_a == <<"a">>
v_b == <<"b">>
v_ab == <<"a","b">>
v_B == <<"B">>
v_a_pct == <<"a","%">>
v_us == <<"_">>
v_qa == <<"\"","a","\"">>
v_qb == <<"'","b","'">>
v_A == <<"A">>
v_currentUser == <<"c","u","r","r","e","n","t","U","s","e","r","(",")">>
f_Project == <<"P","r","o","j","e","c","t">>
f_bogus == <<"b","o","g","u","s">>
conn_AND == <<" ","A","N","D"," ">>
conn_and == <<" ","a","n","d"," "," ">>

\* Label names (and assignee / project names) the upstream records use.
Names == {v_a, v_b, v_ab}

\* Sequences without repetition over S, of length at most n.
RECURSIVE ListsUpTo(_, _)
ListsUpTo(S, n) ==
    IF n = 0 THEN {<<>>}
    ELSE LET shorter == ListsUpTo(S, n - 1)
         IN  shorter \cup {Append(l, x) : l \in shorter, x \in S}

DistinctLists(S, n) ==
    {l \in ListsUpTo(S, n) : \A i, j \in 1..Len(l) : i # j => l[i] # l[j]}

\* A missing list (None where a list of names is expected).
NoList == <<NULL>>

\* ", ".join(names)  (database.py:519, 526)
FlattenNames(names) == Join(names, <<",", " ">>)

---------------------------------------------------------------------------
(* One run of the filter interpreter on one query and one row              *)

JqlFields == {f_labels, f_Project, f_assignee, f_bogus}
JqlSimpleOps == {op_eq, op_ne, op_gt, op_ge, op_lt, op_le, op_tilde}
JqlRawValues == {v_a, v_b, v_ab, v_B, v_a_pct, v_us, t_null, v_qa, v_currentUser}
JqlInRawValues == {v_a, v_b, v_a_pct, v_qb}

\* A condition as the user writes it: connective (when not first), field,
\* operator, and the raw value texts (one, or the IN list).
JqlCond(conn, field, op, vals) ==
    [conn |-> conn, field |-> field, op |-> op, vals |-> vals]

JqlFirstConds ==
    {JqlCond(<<>>, f, op, <<v>>) : f \in JqlFields, op \in JqlSimpleOps, v \in JqlRawValues}
    \cup {JqlCond(<<>>, f, op_in, vs) :
              f \in JqlFields, vs \in ListsUpTo(JqlInRawValues, MaxInValues) \ {<<>>}}

JqlMoreConds ==
    { JqlCond(conn_AND, f_Project, op_eq, <<v_a>>),
      JqlCond(conn_and, f_assignee, op_ne, <<t_null>>) }

JqlQueries ==
    {<<c>> : c \in JqlFirstConds} \cup {<<c, d>> : c \in JqlFirstConds, d \in JqlMoreConds}

\* The query text the user types for a structured query.
RenderCond(c) ==
    c.conn \o c.field \o <<" ">> \o c.op \o <<" ">>
        \o (IF c.op = op_in
            THEN kw_LP \o Join(c.vals, <<",", " ">>) \o kw_RP
            ELSE c.vals[1])

RenderQuery(q) == Flatten([i \in 1..Len(q) |-> RenderCond(q[i])])

\* Rows under test: the labels list (or a NULL column), assignee, project.
JqlRows ==
    {[labels |-> l, assignee |-> u[1], project |-> u[2]] :
        l \in DistinctLists(Names, MaxLabels) \cup {NoList},
        u \in {<<NULL, v_a>>, <<v_a, v_b>>}}

JqlRowOf(r) ==
    [key |-> <<"X","-","1">>,
     summary |-> <<"s">>,
     assignee_display_name |-> r.assignee,
     updated |-> <<"1">>,
     labels |-> IF r.labels = NoList THEN NULL ELSE FlattenNames(r.labels),
     project_key |-> r.project]

SanIdle ==
    /\ squery = <<>>
    /\ sout = <<>>
    /\ spc = "idle"

\* No mapping run, no configuration load, no rate limiter and no sync run.
RunsIdle ==
    /\ mrun = [pc |-> "idle"]
    /\ crun = [pc |-> "idle"]
    /\ limiter = [pc |-> "idle"]
    /\ sync = [pc |-> "idle"]

PurgeIdle ==
    /\ cpc = "idle"
    /\ ccutoff = 0
    /\ ccount = 0
    /\ cremoved = {}

JqlIdle ==
    /\ jq = <<>>
    /\ jrow = [labels |-> NoList, assignee |-> NULL, project |-> NULL]
    /\ jpc = "idle"
    /\ jres = JQLError
    /\ jmatch = FALSE

\* validate_jql / _search_jql, first half: parse the query.
JqlParse ==
    /\ jpc = "input"
    /\ jres' = parse_jql(RenderQuery(jq))
    /\ jpc' = IF jres'.ok THEN "parsed" ELSE "rejected"
    /\ UNCHANGED <<jq, jrow, jmatch, storeVars, writerVars, lastSearch, sanVars, purgeVars, runVars>>

\* _search_jql, second half: SQLite applies WHERE {sql_where} to a row.
JqlExecute ==
    /\ jpc = "parsed"
    /\ \E r \in JqlRows :
           /\ jrow' = r
           /\ jmatch' = WhereSelects(jres.sql, jres.params, JqlRowOf(r))
    /\ jpc' = "done"
    /\ UNCHANGED <<jq, jres, storeVars, writerVars, lastSearch, sanVars, purgeVars, runVars>>

StoreEmpty ==
    /\ issues = {}
    /\ fts = {}
    /\ meta = <<>>
    /\ lastUpsert = {}
    /\ now = 0
    /\ wpc = [w \in Writers |-> "idle"]
    /\ wrec = [w \in Writers |-> NULL]
    /\ wexisting = [w \in Writers |-> FALSE]
    /\ wpresent = [w \in Writers |-> FALSE]
    /\ lastSearch = [mode |-> "", query |-> <<>>, limit |-> 0, offset |-> 0,
                     clock |-> "in_time", status |-> 0, error |-> "",
                     message |-> "", results |-> <<>>, total |-> 0]
    /\ PurgeIdle

JqlInit ==
    /\ jq \in JqlQueries
    /\ jrow = [labels |-> NoList, assignee |-> NULL, project |-> NULL]
    /\ jpc = "input"
    /\ jres = JQLError
    /\ jmatch = FALSE
    /\ SanIdle
    /\ RunsIdle
    /\ StoreEmpty

JqlNext == JqlParse \/ JqlExecute

SpecJql == JqlInit /\ [][JqlNext]_vars

---------------------------------------------------------------------------
(* Mirror Store: database.py                                               *)

\* The NULL of a DATETIME column (times are clock ticks 0, 1, ...).
NoTime == 0 - 1

k_X1 == <<"X","-","1">>
k_X2 == <<"X","-","2">>
s_fix_ui == <<"f","i","x"," ","u","i">>
s_add_db == <<"a","d","d"," ","d","b">>
s_fix_db == <<"f","i","x"," ","d","b">>
u_1 == <<"1">>
u_2 == <<"2">>

\* One upstream issue record: {key, fields: {...}}; assignee is the display
\* name of the assignee object, NULL when the issue is unassigned.
Issue(key, summary, assignee, labels, updated, project) ==
    [key |-> key,
     fields |-> [summary |-> summary, assignee |-> assignee, labels |-> labels,
                 updated |-> updated, project |-> project]]

\* The records the upstream client yields: two versions of each of two issues.
IssueData ==
    { Issue(k_X1, s_fix_ui, v_a, <<v_a, v_b>>, u_1, v_a),
      Issue(k_X1, s_add_db, NULL, <<>>, u_2, v_a),
      Issue(k_X2, s_fix_db, NULL, <<v_b>>, u_2, v_b),
      Issue(k_X2, s_fix_ui, v_ab, <<v_ab, v_a, v_b>>, u_1, v_b) }

\* The records synced in the runs that search: the second version of X-2 has
\* the summary and labels of the first version of X-1 and a later `updated`.
SearchIssueData ==
    { Issue(k_X1, s_fix_ui, v_a, <<v_a, v_b>>, u_1, v_a),
      Issue(k_X1, s_add_db, NULL, <<>>, u_2, v_a),
      Issue(k_X2, s_fix_db, NULL, <<v_b>>, u_2, v_b),
      Issue(k_X2, s_fix_ui, v_a, <<v_a, v_b>>, u_2, v_b) }

Keys == {d.key : d \in IssueData}

\* Database._process_issue_data, for the configured core fields summary,
\* assignee, updated, labels (plus project, always extracted).
process_issue_data(issue_data) ==
    [key |-> issue_data.key,
     summary |-> issue_data.fields.summary,
     assignee_display_name |-> issue_data.fields.assignee,
     updated |-> issue_data.fields.updated,
     labels |-> IF issue_data.fields.labels # <<>>
                THEN FlattenNames(issue_data.fields.labels)
                ELSE <<>>,
     project_key |-> issue_data.fields.project]

\* The row INSERT OR REPLACE writes: the listed columns, raw_json, and the
\* column defaults (synced_at CURRENT_TIMESTAMP, is_deleted FALSE, deleted_at NULL).
NewRow(processed, issue_data, rowid, time) ==
    [rowid |-> rowid,
     key |-> processed.key,
     summary |-> processed.summary,
     assignee_display_name |-> processed.assignee_display_name,
     updated |-> processed.updated,
     labels |-> processed.labels,
     project_key |-> processed.project_key,
     raw_json |-> issue_data,
     synced_at |-> time,
     is_deleted |-> FALSE,
     deleted_at |-> NoTime]

\* The columns of a row that come from the upstream record.
MappedColumns(row) ==
    [key |-> row.key,
     summary |-> row.summary,
     assignee_display_name |-> row.assignee_display_name,
     updated |-> row.updated,
     labels |-> row.labels,
     project_key |-> row.project_key]

\* The declared columns of a row (what SELECT * returns; no rowid).
DeclaredColumns(row) ==
    [key |-> row.key,
     summary |-> row.summary,
     assignee_display_name |-> row.assignee_display_name,
     updated |-> row.updated,
     labels |-> row.labels,
     project_key |-> row.project_key,
     raw_json |-> row.raw_json,
     synced_at |-> row.synced_at,
     is_deleted |-> row.is_deleted,
     deleted_at |-> row.deleted_at]

SetMax(S) == CHOOSE x \in S : \A y \in S : y <= x

\* The rowid SQLite gives a new row of a table without AUTOINCREMENT.
NextRowid(rows) == IF rows = {} THEN 1 ELSE SetMax({r.rowid : r \in rows}) + 1

\* The issues_fts entry of a row: rowid and the search columns
\* (key UNINDEXED, summary, labels).
FtsEntry(row) ==
    [rowid |-> row.rowid, key |-> row.key, summary |-> row.summary, labels |-> row.labels]

\* Trigger issues_fts_insert
TriggerInsert(index, new) == index \cup {FtsEntry(new)}

\* Trigger issues_fts_delete
TriggerDelete(index, old) == index \ {FtsEntry(old)}

\* Trigger issues_fts_update
TriggerUpdate(index, old, new) == TriggerInsert(TriggerDelete(index, old), new)

RECURSIVE TriggerDeleteAll(_, _)
TriggerDeleteAll(index, olds) ==
    IF olds = {} THEN index
    ELSE LET r == CHOOSE x \in olds : TRUE
         IN  TriggerDeleteAll(TriggerDelete(index, r), olds \ {r})

\* An upsert that keeps the old assignee where the new record has none.
ReplaceRows_Merge(rows, new) ==
    {r \in rows : r.key # new.key}
    \cup {IF new.assignee_display_name = NULL /\ \E r \in rows : r.key = new.key
          THEN [new EXCEPT !.assignee_display_name =
                    (CHOOSE r \in rows : r.key = new.key).assignee_display_name]
          ELSE new}

\* INSERT OR REPLACE INTO issues (...): the row with the conflicting key is
\* removed and the new row inserted.
ReplaceRows(rows, new) == {r \in rows : r.key # new.key} \cup {new}

\* What the triggers do to the index on INSERT OR REPLACE: issues_fts_insert
\* fires for the new row; the rows REPLACE removes fire no delete trigger
\* (PRAGMA recursive_triggers is never set, and is off by default).
ReplaceIndex(index, rows, new) == TriggerInsert(index, new)

Initialized == meta # <<>>

\* The sync_metadata row the INSERT of _create_metadata_table names: the
\* columns it leaves out take their defaults.
InitialMetadata ==
    [id |-> 1, last_sync_time |-> NoTime, last_sync_query |-> NULL,
     last_full_sync |-> NoTime, issues_processed |-> 0, issues_added |-> 0,
     issues_updated |-> 0, issues_deleted |-> 0, sync_duration_seconds |-> 0,
     created_at |-> now, updated_at |-> now]

\* _create_metadata_table with INSERT OR REPLACE in place of INSERT OR IGNORE.
create_metadata_table_Replace(table) == <<InitialMetadata>>

\* Database._create_metadata_table: CREATE TABLE IF NOT EXISTS keeps an
\* existing table, INSERT OR IGNORE adds the row unless its primary key (id)
\* is taken.
create_metadata_table(table) ==
    IF \E i \in DOMAIN table : table[i].id = InitialMetadata.id
    THEN table
    ELSE Append(table, InitialMetadata)

\* Database.initialize: the issues table, the index, its triggers and the
\* indexes are created IF NOT EXISTS.
initialize ==
    /\ meta' = create_metadata_table(meta)
    /\ UNCHANGED <<issues, fts, now, lastUpsert, writerVars, lastSearch, jqlVars, sanVars, purgeVars, runVars>>

\* Database.upsert_issue
upsert_issue(issue_data) ==
    /\ Initialized
    /\ NextRowid(issues) <= MaxRowid
    /\ LET new == NewRow(process_issue_data(issue_data), issue_data,
                         NextRowid(issues), now)
       IN  /\ issues' = ReplaceRows(issues, new)
           /\ fts' = ReplaceIndex(fts, issues, new)
    /\ lastUpsert' = {d \in lastUpsert : d.key # issue_data.key} \cup {issue_data}
    /\ UNCHANGED <<now, meta, writerVars, lastSearch, jqlVars, sanVars, purgeVars, runVars>>

\* Database.mark_issue_deleted
mark_issue_deleted(issue_key) ==
    /\ Initialized
    /\ LET hit == {r \in issues : r.key = issue_key} IN
       IF hit = {} THEN UNCHANGED <<issues, fts>>
       ELSE LET old == CHOOSE r \in hit : TRUE
                new == [old EXCEPT !.is_deleted = TRUE, !.deleted_at = now]
            IN  /\ issues' = (issues \ {old}) \cup {new}
                /\ fts' = TriggerUpdate(fts, old, new)
    /\ UNCHANGED <<now, meta, lastUpsert, writerVars, lastSearch, jqlVars, sanVars, purgeVars, runVars>>

\* WHERE is_deleted = TRUE AND deleted_at < ?
DeletedBefore(cutoff_date) ==
    {r \in issues : r.is_deleted /\ r.deleted_at # NoTime
                      /\ r.deleted_at < cutoff_date}

\* Database.cleanup_deleted_issues, run without another connection writing
\* in between: a day is one clock tick.
cleanup_deleted_issues(days_old) ==
    /\ Initialized
    /\ LET cutoff_date == now - days_old
           old == DeletedBefore(cutoff_date)
       IN  /\ issues' = issues \ old
           /\ fts' = TriggerDeleteAll(fts, old)
    /\ UNCHANGED <<now, meta, lastUpsert, writerVars, lastSearch, jqlVars, sanVars, purgeVars, runVars>>

\* Database.clear_issues
clear_issues ==
    /\ Initialized
    /\ issues' = {}
    /\ fts' = TriggerDeleteAll(fts, issues)
    /\ UNCHANGED <<now, meta, lastUpsert, writerVars, lastSearch, jqlVars, sanVars, purgeVars, runVars>>

\* stats.get(name, 0), for stats = sync_stats or {}
StatsGet(sync_stats, name) ==
    IF name \in DOMAIN sync_stats THEN sync_stats[name] ELSE 0

\* update_sync_metadata taking the is_full_sync branch whatever the argument.
UpdatedMetadata_AlwaysFull(table, sync_query, is_full_sync, sync_stats, duration_seconds) ==
    [i \in DOMAIN table |->
        IF table[i].id = 1
        THEN [table[i] EXCEPT
                 !.last_sync_time = now,
                 !.last_sync_query = sync_query,
                 !.last_full_sync = now,
                 !.issues_processed = StatsGet(sync_stats, "processed"),
                 !.issues_added = StatsGet(sync_stats, "added"),
                 !.issues_updated = StatsGet(sync_stats, "updated"),
                 !.issues_deleted = StatsGet(sync_stats, "deleted"),
                 !.sync_duration_seconds = duration_seconds,
                 !.updated_at = now]
        ELSE table[i]]

\* The two UPDATE sync_metadata ... WHERE id = 1 statements.
UpdatedMetadata(table, sync_query, is_full_sync, sync_stats, duration_seconds) ==
    [i \in DOMAIN table |->
        IF table[i].id = 1
        THEN [table[i] EXCEPT
                 !.last_sync_time = now,
                 !.last_sync_query = sync_query,
                 !.last_full_sync = IF is_full_sync THEN now ELSE @,
                 !.issues_processed = StatsGet(sync_stats, "processed"),
                 !.issues_added = StatsGet(sync_stats, "added"),
                 !.issues_updated = StatsGet(sync_stats, "updated"),
                 !.issues_deleted = StatsGet(sync_stats, "deleted"),
                 !.sync_duration_seconds = duration_seconds,
                 !.updated_at = now]
        ELSE table[i]]

\* Database.update_sync_metadata
update_sync_metadata(sync_query, is_full_sync, sync_stats, duration_seconds) ==
    /\ Initialized
    /\ meta' = UpdatedMetadata(meta, sync_query, is_full_sync, sync_stats,
                               duration_seconds)
    /\ UNCHANGED <<issues, fts, now, lastUpsert, writerVars, lastSearch, jqlVars,
                   sanVars, purgeVars, runVars>>

\* The wall clock advances.
Tick ==
    /\ now < MaxTime
    /\ now' = now + 1
    /\ UNCHANGED <<issues, fts, meta, lastUpsert, writerVars, lastSearch, jqlVars, sanVars, purgeVars, runVars>>

Init ==
    /\ issues = {}
    /\ fts = {}
    /\ meta = <<>>
    /\ lastUpsert = {}
    /\ now = 0
    /\ wpc = [w \in Writers |-> "idle"]
    /\ wrec = [w \in Writers |-> NULL]
    /\ wexisting = [w \in Writers |-> FALSE]
    /\ wpresent = [w \in Writers |-> FALSE]
    /\ lastSearch = [mode |-> "", query |-> <<>>, limit |-> 0, offset |-> 0,
                     clock |-> "in_time", status |-> 0, error |-> "",
                     message |-> "", results |-> <<>>, total |-> 0]
    /\ PurgeIdle
    /\ SanIdle
    /\ JqlIdle
    /\ RunsIdle

Next ==
    \/ initialize
    \/ \E d \in IssueData : upsert_issue(d)
    \/ \E k \in Keys : mark_issue_deleted(k)
    \/ \E days \in 0..1 : cleanup_deleted_issues(days)
    \/ clear_issues
    \/ Tick

Spec == Init /\ [][Next]_vars

---------------------------------------------------------------------------
(* initialize() and update_sync_metadata() among the other store calls     *)

sq_project_a == f_project \o <<" ">> \o op_eq \o <<" ">> \o v_a
sq_project_b == f_project \o <<" ">> \o op_eq \o <<" ">> \o v_b

\* Arguments of update_sync_metadata: the sync query, the statistics (none,
\* or the counters of a run) and the duration.
SyncQueries == {sq_project_a, sq_project_b}
SyncStats ==
    { <<>>,
      [processed |-> 2, added |-> 1, updated |-> 1, deleted |-> 0] }
Durations == {0, 1}

\* The records synced in these runs: one version of each issue.
MetaIssueData ==
    { Issue(k_X1, s_fix_ui, v_a, <<v_a, v_b>>, u_1, v_a),
      Issue(k_X2, s_fix_db, NULL, <<v_b>>, u_2, v_b) }

MetaNext ==
    \/ initialize
    \/ \E d \in MetaIssueData : upsert_issue(d)
    \/ \E k \in Keys : mark_issue_deleted(k)
    \/ Tick
    \/ \E q \in SyncQueries, full \in BOOLEAN, st \in SyncStats, dur \in Durations :
           update_sync_metadata(q, full, st, dur)

SpecMeta == Init /\ [][MetaNext]_vars

---------------------------------------------------------------------------
(* Database.cleanup_deleted_issues next to other connections               *)

\* The SELECT COUNT(*) runs outside a transaction (sqlite3 opens one only
\* before the DELETE), so other connections can commit between the two
\* statements.  First step: the cutoff is computed and the rows are counted.
CleanupCount(days_old) ==
    /\ Initialized
    /\ cpc \in {"idle", "done"}
    /\ ccutoff' = now - days_old
    /\ ccount' = Cardinality(DeletedBefore(now - days_old))
    /\ cremoved' = {}
    /\ cpc' = "counted"
    /\ UNCHANGED <<storeVars, writerVars, lastSearch, jqlVars, sanVars, runVars>>

\* Second step: the DELETE runs with the same cutoff and the count of the
\* first step is returned.
CleanupDelete ==
    /\ cpc = "counted"
    /\ LET old == DeletedBefore(ccutoff)
       IN  /\ issues' = issues \ old
           /\ fts' = TriggerDeleteAll(fts, old)
           /\ cremoved' = {r.key : r \in old}
    /\ cpc' = "done"
    /\ UNCHANGED <<now, meta, lastUpsert, ccutoff, ccount, writerVars,
                   lastSearch, jqlVars, sanVars, runVars>>

PurgeNext ==
    \/ initialize
    \/ \E d \in IssueData : upsert_issue(d)
    \/ \E k \in Keys : mark_issue_deleted(k)
    \/ Tick
    \/ \E days \in 0..1 : CleanupCount(days)
    \/ CleanupDelete

SpecPurge == Init /\ [][PurgeNext]_vars

---------------------------------------------------------------------------
(* Concurrent callers of Database.upsert_issue_with_stats                  *)

HasKey(rows, key) == \E r \in rows : r.key = key

\* processed_data = self._process_issue_data(issue_data)
WBegin(w, issue_data) ==
    /\ Initialized
    /\ wpc[w] = "idle"
    /\ wrec' = [wrec EXCEPT ![w] = issue_data]
    /\ wpc' = [wpc EXCEPT ![w] = "probe"]
    /\ UNCHANGED <<storeVars, wexisting, wpresent, lastSearch, jqlVars, sanVars, purgeVars, runVars>>

\* existing = conn.execute("SELECT key FROM issues WHERE key = ?").fetchone()
\* The SELECT runs in autocommit mode: no transaction is open yet.
WProbe(w) ==
    /\ wpc[w] = "probe"
    /\ wexisting' = [wexisting EXCEPT ![w] = HasKey(issues, wrec[w].key)]
    /\ wpc' = [wpc EXCEPT ![w] = "write"]
    /\ UNCHANGED <<storeVars, wrec, wpresent, lastSearch, jqlVars, sanVars, purgeVars, runVars>>

\* conn.execute(INSERT OR REPLACE ...) and the commit on leaving the `with`
\* block: one write transaction, serialized by SQLite's write lock.
WWrite(w) ==
    /\ wpc[w] = "write"
    /\ NextRowid(issues) <= MaxRowid
    /\ LET new == NewRow(process_issue_data(wrec[w]), wrec[w], NextRowid(issues), now)
       IN  /\ issues' = ReplaceRows(issues, new)
           /\ fts' = ReplaceIndex(fts, issues, new)
    /\ wpresent' = [wpresent EXCEPT ![w] = HasKey(issues, wrec[w].key)]
    /\ lastUpsert' = {d \in lastUpsert : d.key # wrec[w].key} \cup {wrec[w]}
    /\ wpc' = [wpc EXCEPT ![w] = "done"]
    /\ UNCHANGED <<now, meta, wrec, wexisting, lastSearch, jqlVars, sanVars, purgeVars, runVars>>

\* return existing is not None
WReturn(w) ==
    /\ wpc[w] = "done"
    /\ wpc' = [wpc EXCEPT ![w] = "idle"]
    /\ wrec' = [wrec EXCEPT ![w] = NULL]
    /\ wexisting' = [wexisting EXCEPT ![w] = FALSE]
    /\ wpresent' = [wpresent EXCEPT ![w] = FALSE]
    /\ UNCHANGED <<storeVars, lastSearch, jqlVars, sanVars, purgeVars, runVars>>

WritersNext ==
    \/ initialize
    \/ \E w \in Writers, d \in IssueData : WBegin(w, d)
    \/ \E w \in Writers : WProbe(w)
    \/ \E w \in Writers : WWrite(w)
    \/ \E w \in Writers : WReturn(w)

SpecWriters == Init /\ [][WritersNext]_vars

---------------------------------------------------------------------------
(* Search: AdvancedSearch.search and Database.search_issues                *)

IsUpper(c) == \E i \in 1..Len(UpperLetters) : UpperLetters[i] = c

IsAlnum(c) == IsUpper(c) \/ (\E i \in 1..Len(LowerLetters) : LowerLetters[i] = c) \/ c \in Digits

\* Start positions of the maximal alphanumeric runs of a text.
TokenStarts(s) ==
    {i \in 1..Len(s) : IsAlnum(s[i]) /\ (i = 1 \/ ~IsAlnum(s[i - 1]))}

TokenEnd(s, i) ==
    CHOOSE j \in i..Len(s) :
        /\ \A k \in i..j : IsAlnum(s[k])
        /\ (j = Len(s) \/ ~IsAlnum(s[j + 1]))

\* The unicode61 tokenizer of FTS5: alphanumeric runs, folded to lower case.
FtsTokens(s) ==
    IF s = NULL THEN <<>>
    ELSE LET starts == TokenStarts(s)
             nth(n) == CHOOSE i \in starts : Cardinality({k \in starts : k < i}) = n - 1
         IN  [n \in 1..Cardinality(starts) |-> Lower(Slice(s, nth(n), TokenEnd(s, nth(n))))]

\* re.match(r'^[A-Z]+-\d+$', text)
IsIssueKey(s) ==
    \E d \in 2..(Len(s) - 1) :
        /\ s[d] = "-"
        /\ \A i \in 1..(d - 1) : IsUpper(s[i])
        /\ \A i \in (d + 1)..Len(s) : s[i] \in Digits

special_chars == {"-", ":", "(", ")", "[", "]", "{", "}", "\""}

\* str.replace('"', '""')
EscapeQuotes(s) ==
    Flatten([i \in 1..Len(s) |-> IF s[i] = "\"" THEN <<"\"", "\"">> ELSE <<s[i]>>])

\* Database._sanitize_fts_query
sanitize_fts_query(query) ==
    LET q == Strip(query) IN
    IF q = <<>> THEN <<"\"", "\"">>
    ELSE IF IsIssueKey(q) THEN <<"\"">> \o q \o <<"\"">>
    ELSE IF (\E i \in 1..Len(q) : q[i] \in special_chars)
            /\ ~(StartsWith(q, <<"\"">>) /\ EndsWith(q, <<"\"">>))
         THEN <<"\"">> \o EscapeQuotes(q) \o <<"\"">>
    ELSE q

\* The columns of a shadow entry that are indexed (key is UNINDEXED).
IndexedTexts(e) == {e.summary, e.labels}

IsSubSeqOf(p, s) ==
    \E i \in 0..(Len(s) - Len(p)) : \A k \in 1..Len(p) : s[i + k] = p[k]

\* issues_fts MATCH ?, for a quoted phrase or for blank-separated plain terms
\* (implicit AND), evaluated over everything the index holds for a rowid.
FtsMatch(fts_query, entries) ==
    IF StartsWith(fts_query, <<"\"">>)
    THEN LET phrase == FtsTokens(fts_query)
         IN  /\ phrase # <<>>
             /\ \E e \in entries : \E t \in IndexedTexts(e) :
                    IsSubSeqOf(phrase, FtsTokens(t))
    ELSE LET terms == FtsTokens(fts_query)
         IN  /\ terms # <<>>
             /\ \A n \in 1..Len(terms) :
                    \E e \in entries : \E t \in IndexedTexts(e) :
                        \E m \in 1..Len(FtsTokens(t)) : FtsTokens(t)[m] = terms[n]

\* (is_deleted IS NULL OR is_deleted = FALSE)
NotDeleted(row) == ~row.is_deleted

\* All orders of a set of rows.
Orders(rows) ==
    {s \in [1..Cardinality(rows) -> rows] : \A i, j \in DOMAIN s : i # j => s[i] # s[j]}

\* ORDER BY updated DESC; rows with equal values come in any order.
OrdersUpdatedDesc(rows) ==
    {s \in Orders(rows) :
        \A i, j \in DOMAIN s : i < j => ~StrLess(s[i].updated, s[j].updated)}

\* LIMIT ? OFFSET ?: a negative limit is no limit, a negative offset is zero.
Page(s, limit, offset) ==
    LET off == IF offset < 0 THEN 0 ELSE offset
        last == IF limit < 0 \/ off + limit > Len(s) THEN Len(s) ELSE off + limit
    IN  SubSeq(s, off + 1, last)

Rows(s) == [i \in DOMAIN s |-> DeclaredColumns(s[i])]

\* What a search leaves behind: its arguments, the course of the clock while
\* it ran, and either the rows and total it returned or the class and the
\* message of the exception it raised.  status is the HTTP status of the
\* response when the search was a request to /api/search, otherwise 0.
Found(mode, query, limit, offset, results, total) ==
    [mode |-> mode, query |-> query, limit |-> limit, offset |-> offset,
     clock |-> "in_time", status |-> 0, error |-> "", message |-> "",
     results |-> results, total |-> total]

Failed(mode, query, limit, offset, error) ==
    [mode |-> mode, query |-> query, limit |-> limit, offset |-> offset,
     clock |-> "in_time", status |-> 0, error |-> error, message |-> "",
     results |-> <<>>, total |-> 0]

NoSearch == Failed("", <<>>, 0, 0, "")

\* What the index holds for a row: rows for which it holds the same texts
\* have the same rank.
RankKey(row) == {<<e.summary, e.labels>> : e \in {x \in fts : x.rowid = row.rowid}}

\* ORDER BY rank: the rank of rows with different texts is left open, rows of
\* equal rank come in the order of the index scan (ascending rowid).
OrdersByRank(rows) ==
    {s \in Orders(rows) :
        \A i, j \in DOMAIN s :
            (i < j /\ RankKey(s[i]) = RankKey(s[j])) => s[i].rowid < s[j].rowid}

\* Database.search_issues: the outcomes it can return.
search_issues(query, limit, offset) ==
    IF ~Initialized THEN {Failed("natural", query, limit, offset, "DatabaseError")}
    ELSE
    LET q == Strip(query)
        direct == {r \in issues : r.key = q /\ NotDeleted(r)}
        directPages == {Page(s, limit, offset) : s \in Orders(direct)}
        fts_query == sanitize_fts_query(query)
        hits == {r \in issues :
                    /\ FtsMatch(fts_query, {e \in fts : e.rowid = r.rowid})
                    /\ NotDeleted(r)}
        viaIndex == {Found("natural", query, limit, offset,
                           Rows(Page(s, limit, offset)), Cardinality(hits)) :
                        s \in OrdersByRank(hits)}
    IN  IF IsIssueKey(q)
        THEN {Found("natural", query, limit, offset, Rows(p), Cardinality(direct)) :
                 p \in {x \in directPages : x # <<>>}}
             \cup (IF <<>> \in directPages THEN viaIndex ELSE {})
        ELSE viaIndex

\* ORDER BY updated DESC carries no second key.  The statement is the same
\* text for every page (limit and offset are bound parameters), so for one
\* store one plan runs it: either idx_issues_updated is scanned backwards, and
\* rows with equal `updated` come in descending rowid, or the rows are
\* scanned and sorted, and they come in ascending rowid.
TieOrders == {"rowid_asc", "rowid_desc"}

ScanOrder_Asc(rows, ties) ==
    CHOOSE s \in Orders(rows) :
        \A i, j \in DOMAIN s :
            i < j => \/ StrLess(s[i].updated, s[j].updated)
                     \/ /\ s[i].updated = s[j].updated
                        /\ IF ties = "rowid_asc" THEN s[i].rowid < s[j].rowid
                                                 ELSE s[i].rowid > s[j].rowid

ScanOrder(rows, ties) ==
    CHOOSE s \in OrdersUpdatedDesc(rows) :
        \A i, j \in DOMAIN s :
            (i < j /\ s[i].updated = s[j].updated)
            => IF ties = "rowid_asc" THEN s[i].rowid < s[j].rowid
                                     ELSE s[i].rowid > s[j].rowid

\* AdvancedSearch._search_jql, after the query is parsed.
execute_jql(parsed, jql_query, limit, offset, ties) ==
    IF ~parsed.ok \/ ~Initialized
    THEN {Failed("jql", jql_query, limit, offset, "JQLError")}
    ELSE LET hits == {r \in issues : WhereSelects(parsed.sql, parsed.params, r)}
         IN  {Found("jql", jql_query, limit, offset,
                    Rows(Page(ScanOrder(hits, ties), limit, offset)),
                    Cardinality(hits))}

q_fix == <<"f","i","x">>
q_fix_db == <<"f","i","x"," ","d","b">>
q_re_fix == <<"^","f","i","x">>
q_re_DB == <<"D","B">>
q_assignee_null == f_assignee \o <<" ">> \o op_eq \o <<" ">> \o t_null
q_assignee_not_null == f_assignee \o <<" ">> \o op_ne \o <<" ">> \o t_null
q_labels_b == f_labels \o <<" ">> \o op_eq \o <<" ">> \o v_b
q_bogus == f_bogus \o <<" ">> \o op_eq \o <<" ">> \o v_b

\* The filters searched, and what AdvancedSearch._parse_jql makes of each.
SearchedFilters == {q_assignee_null, q_assignee_not_null, q_labels_b, q_bogus}

ParsedJql == [q \in SearchedFilters |-> parse_jql(q)]

\* AdvancedSearch._search_jql
search_jql(jql_query, limit, offset, ties) ==
    execute_jql(ParsedJql[jql_query], jql_query, limit, offset, ties)

\* re.compile(regex_pattern): of the patterns searched here only the
\* unbalanced parenthesis does not compile.
RegexCompiles(pattern) == pattern # kw_LP

\* compiled_regex.search(str(text)) under re.IGNORECASE, for a pattern that
\* is a literal text, optionally anchored at the start with ^.
RegexSearch(pattern, text) ==
    IF text = NULL THEN FALSE
    ELSE IF StartsWith(pattern, <<"^">>)
         THEN StartsWith(Lower(text), Lower(Tail(pattern)))
         ELSE Contains(Lower(text), Lower(pattern))

\* The course of the clock during a pattern search: it stays within
\* timeout_seconds, or it passes the deadline before the page statement
\* evaluates its rows, between the page statement and the check that follows
\* it, or after that check and before the count statement evaluates its rows.
Clocks == {"in_time", "late_in_page", "late_after_page", "late_in_count"}

\* regexp_with_timeout is called once per column of every row a statement
\* scans: the page statement scans rows unless the table is empty or the
\* limit is zero, the count statement unless the table is empty.
PageCallsRegexp(limit) == issues # {} /\ limit # 0
CountCallsRegexp == issues # {}

msg_invalid == "Invalid regex pattern"
msg_timeout == "Regex search timed out"
msg_database == "Database error executing regex"

RegexFailed(regex_pattern, limit, offset, message) ==
    [Failed("regex", regex_pattern, limit, offset, "RegexError")
        EXCEPT !.message = message]

\* _search_regex with the timeout check removed from regexp_with_timeout.
search_regex_NoRowCheck(regex_pattern, limit, offset, clock, ties) ==
    IF ~RegexCompiles(regex_pattern)
    THEN {RegexFailed(regex_pattern, limit, offset, msg_invalid)}
    ELSE IF ~Initialized
    THEN {RegexFailed(regex_pattern, limit, offset, msg_database)}
    ELSE IF clock \in {"late_in_page", "late_after_page"}
    THEN {RegexFailed(regex_pattern, limit, offset, msg_timeout)}
    ELSE LET hits == {r \in issues :
                         \/ RegexSearch(regex_pattern, r.summary)
                         \/ RegexSearch(regex_pattern, r.assignee_display_name)}
         IN  {Found("regex", regex_pattern, limit, offset,
                    Rows(Page(ScanOrder(hits, ties), limit, offset)),
                    Cardinality(hits))}

\* AdvancedSearch._search_regex.  A RegexError raised by regexp_with_timeout
\* inside a statement reaches the handlers as sqlite3.OperationalError
\* ("user-defined function raised exception") and leaves as the database
\* error; the check between the statements raises the timeout itself.
search_regex(regex_pattern, limit, offset, clock, ties) ==
    IF ~RegexCompiles(regex_pattern)
    THEN {RegexFailed(regex_pattern, limit, offset, msg_invalid)}
    ELSE IF ~Initialized
    THEN {RegexFailed(regex_pattern, limit, offset, msg_database)}
    ELSE IF clock = "late_in_page" /\ PageCallsRegexp(limit)
    THEN {RegexFailed(regex_pattern, limit, offset, msg_database)}
    ELSE IF clock \in {"late_in_page", "late_after_page"}
    THEN {RegexFailed(regex_pattern, limit, offset, msg_timeout)}
    ELSE IF clock = "late_in_count" /\ CountCallsRegexp
    THEN {RegexFailed(regex_pattern, limit, offset, msg_database)}
    ELSE LET hits == {r \in issues :
                         \/ RegexSearch(regex_pattern, r.summary)
                         \/ RegexSearch(regex_pattern, r.assignee_display_name)}
         IN  {Found("regex", regex_pattern, limit, offset,
                    Rows(Page(ScanOrder(hits, ties), limit, offset)),
                    Cardinality(hits))}

\* AdvancedSearch.search
search(query, mode, limit, offset, clock, ties) ==
    IF mode = "natural" THEN search_issues(query, limit, offset)
    ELSE IF mode = "jql" THEN search_jql(query, limit, offset, ties)
    ELSE IF mode = "regex" THEN search_regex(query, limit, offset, clock, ties)
    ELSE {Failed(mode, query, limit, offset, "SearchError")}

\* The searches issued: (mode, query).
SearchInputs ==
    {<<"natural", q_fix>>, <<"natural", q_fix_db>>, <<"natural", k_X1>>,
     <<"natural", <<>> >>,
     <<"jql", q_assignee_null>>, <<"jql", q_assignee_not_null>>,
     <<"jql", q_labels_b>>, <<"jql", q_bogus>>,
     <<"regex", q_re_fix>>, <<"regex", q_re_DB>>, <<"regex", kw_LP>>,
     <<"fuzzy", q_fix>>}

\* The pages asked for: (limit, offset).
SearchPages == {<<MaxRowid, 0>>, <<1, 1>>}

Search(mode, query, limit, offset) ==
    /\ \E clock \in (IF mode = "regex" THEN Clocks ELSE {"in_time"}),
          ties \in (IF mode \in {"jql", "regex"} THEN TieOrders ELSE {"rowid_asc"}) :
           lastSearch' \in {[o EXCEPT !.clock = clock] :
                               o \in search(query, mode, limit, offset, clock, ties)}
    /\ UNCHANGED <<storeVars, writerVars, jqlVars, sanVars, purgeVars, runVars>>

SearchNext ==
    \/ initialize
    \/ \E d \in SearchIssueData : upsert_issue(d)
    \/ \E k \in Keys : mark_issue_deleted(k)
    \/ \E in \in SearchInputs, page \in SearchPages :
           Search(in[1], in[2], page[1], page[2])

SpecSearch == Init /\ [][SearchNext]_vars

---------------------------------------------------------------------------
(* Requests to /api/search                                                 *)

\* config.search_max_results (1000 by default), scaled to the stores of the
\* runs: it is smaller than the number of rows a store can hold.
MaxResults == 1

Min(a, b) == IF a < b THEN a ELSE b

\* The status api_search answers an outcome of AdvancedSearch.search with.
StatusOf(outcome) ==
    IF outcome.error = "" THEN 200
    ELSE IF outcome.error \in {"SearchError", "JQLError", "RegexError"} THEN 400
    ELSE 500

\* api_search: q is stripped, limit is the lesser of the requested limit and
\* search_max_results, offset is passed on as it is; an empty q is answered
\* with status 400 without a search.
api_search(q, mode, limit, offset, clock, ties) ==
    LET query == Strip(q)
        lim == Min(limit, MaxResults)
    IN  IF query = <<>>
        THEN {[Failed(mode, query, lim, offset, "QueryRequired") EXCEPT !.status = 400]}
        ELSE {[o EXCEPT !.clock = clock, !.status = StatusOf(o)] :
                 o \in search(query, mode, lim, offset, clock, ties)}

q_blank == <<" ">>
q_fix_padded == <<" ">> \o q_fix

\* The requests sent: (mode, q), one that finds rows in each mode and one
\* without a query.
ApiInputs ==
    {<<"natural", q_fix_padded>>, <<"jql", q_assignee_null>>,
     <<"regex", q_re_fix>>, <<"natural", q_blank>>}

\* The pages requested: (limit, offset), with limits below zero, zero and
\* above search_max_results, and an offset below zero.
ApiPages ==
    {<<0 - 1, 0>>, <<0, 0>>, <<MaxResults + 1, 0>>, <<MaxResults, 0 - 1>>}

ApiSearch(mode, q, limit, offset) ==
    /\ \E clock \in (IF mode = "regex" THEN Clocks ELSE {"in_time"}),
          ties \in (IF mode \in {"jql", "regex"} THEN TieOrders ELSE {"rowid_asc"}) :
           lastSearch' \in api_search(q, mode, limit, offset, clock, ties)
    /\ UNCHANGED <<storeVars, writerVars, jqlVars, sanVars, purgeVars, runVars>>

ApiNext ==
    \/ initialize
    \/ \E d \in SearchIssueData : upsert_issue(d)
    \/ \E k \in Keys : mark_issue_deleted(k)
    \/ \E in \in ApiInputs, page \in ApiPages :
           ApiSearch(in[1], in[2], page[1], page[2])

SpecApi == Init /\ [][ApiNext]_vars

---------------------------------------------------------------------------
(* A run of Database._sanitize_fts_query on one free-text query            *)

MaxQueryLen == 3    \* most characters in one sanitized free-text query

SanChars == {"a", "X", "1", "\"", "-", " "}

FtsQueries == ListsUpTo(SanChars, MaxQueryLen)

\* fts_query = self._sanitize_fts_query(query)
Sanitize ==
    /\ spc = "input"
    /\ sout' = sanitize_fts_query(squery)
    /\ spc' = "done"
    /\ UNCHANGED <<squery, storeVars, writerVars, lastSearch, jqlVars, purgeVars, runVars>>

SanInit ==
    /\ squery \in FtsQueries
    /\ sout = <<>>
    /\ spc = "input"
    /\ JqlIdle
    /\ RunsIdle
    /\ StoreEmpty

SanNext == Sanitize

SpecSanitize == SanInit /\ [][SanNext]_vars

---------------------------------------------------------------------------
(* A run of Database._process_issue_data on one upstream record            *)

\* Python values of any shape: a tag and a payload.  A str is a sequence of
\* pieces of text, a dict a function from key names to values, a list a
\* sequence of values.  A raised exception is carried as a value as well.
Py(t, v) == [t |-> t, v |-> v]
PyNone == Py("none", 0)
PyStr(v) == Py("str", v)
PyInt(v) == Py("int", v)
PyList(v) == Py("list", v)
PyDict(v) == Py("dict", v)
PyEmptyDict == PyDict([k \in {} |-> PyNone])
Raise(kind) == Py("raise", kind)
IsRaise(x) == x.t = "raise"

\* bool(x)
Truthy(x) ==
    CASE x.t = "none" -> FALSE
      [] x.t = "int" -> x.v # 0
      [] x.t = "dict" -> DOMAIN x.v # {}
      [] OTHER -> x.v # <<>>

\* x.get(key, default): only a dict has the method.
DictGet(x, key, default) ==
    IF x.t # "dict" THEN Raise("AttributeError")
    ELSE IF key \in DOMAIN x.v THEN x.v[key] ELSE default

\* x or default
OrElse(x, default) == IF Truthy(x) THEN x ELSE default

\* A sequence holding the elements of a set of key names.
RECURSIVE KeysInOrder(_)
KeysInOrder(S) ==
    IF S = {} THEN <<>>
    ELSE LET k == CHOOSE k \in S : TRUE IN <<PyStr(<<k>>)>> \o KeysInOrder(S \ {k})

\* What `for item in x` yields: the items of a list, the characters of a
\* str, the keys of a dict; anything else is not iterable.
Iterate(x) ==
    CASE x.t = "list" -> x
      [] x.t = "str" -> PyList([i \in 1..Len(x.v) |-> PyStr(<<x.v[i]>>)])
      [] x.t = "dict" -> PyList(KeysInOrder(DOMAIN x.v))
      [] OTHER -> Raise("TypeError")

RECURSIVE JoinPieces(_, _)
JoinPieces(sep, items) ==
    IF items = <<>> THEN <<>>
    ELSE IF Len(items) = 1 THEN items[1].v
    ELSE items[1].v \o <<sep>> \o JoinPieces(sep, Tail(items))

\* sep.join(x): x must be iterable and yield str only.
StrJoin(sep, x) ==
    LET items == Iterate(x) IN
    IF IsRaise(items) THEN items
    ELSE IF \E i \in DOMAIN items.v : items.v[i].t # "str" THEN Raise("TypeError")
    ELSE PyStr(JoinPieces(sep, items.v))

\* The columns an operator adds to `processed`, or the exception it raises.
Columns(v) == Py("columns", v)

\* {column: obj.get(key) for each (column, key)}
GetColumns(obj, pairs) ==
    IF obj.t # "dict" THEN Raise("AttributeError")
    ELSE Columns([c \in {p[1] : p \in pairs} |->
                     DictGet(obj, (CHOOSE p \in pairs : p[1] = c)[2], PyNone)])

\* status / priority / project / issuetype:
\*     obj = fields.get(name) or {}; processed[column] = obj.get(key)
ObjectField(fields, name, pairs) ==
    GetColumns(OrElse(DictGet(fields, name, PyNone), PyEmptyDict), pairs)

\* assignee / reporter:
\*     obj = fields.get(name) or {}
\*     processed[column] = obj.get(key) if obj else None
PersonField(fields, name, pairs) ==
    LET obj == OrElse(DictGet(fields, name, PyNone), PyEmptyDict) IN
    IF Truthy(obj) THEN GetColumns(obj, pairs)
    ELSE Columns([c \in {p[1] : p \in pairs} |-> PyNone])

\* f"{author}: {body}" for one comment
CommentText(comment) ==
    LET author_obj == DictGet(comment, "author", PyEmptyDict)
        author == IF IsRaise(author_obj) THEN author_obj
                  ELSE DictGet(author_obj, "displayName", PyStr(<<"Unknown">>))
        body == DictGet(comment, "body", PyStr(<<>>))
    IN  IF IsRaise(author) THEN author
        ELSE IF IsRaise(body) THEN body
        ELSE PyStr(<<"author", ": ", "body">>)

\* comment: fields.get('comment', {}).get('comments', []), then one text per
\* comment, joined with newlines.
CommentField(fields) ==
    LET comments == DictGet(DictGet(fields, "comment", PyEmptyDict), "comments", PyList(<<>>))
    IN  IF IsRaise(comments) THEN comments
        ELSE IF ~Truthy(comments) THEN Columns([comments |-> PyStr(<<>>)])
        ELSE LET items == Iterate(comments) IN
             IF IsRaise(items) THEN items
             ELSE LET texts == [i \in DOMAIN items.v |-> CommentText(items.v[i])] IN
                  IF \E i \in DOMAIN texts : IsRaise(texts[i])
                  THEN texts[CHOOSE i \in DOMAIN texts :
                                 IsRaise(texts[i]) /\ \A j \in 1..(i - 1) : ~IsRaise(texts[j])]
                  ELSE Columns([comments |-> StrJoin("\n", PyList(texts))])

\* labels: ", ".join(labels) if labels else ""
LabelsField(fields) ==
    LET labels == DictGet(fields, "labels", PyList(<<>>)) IN
    IF ~Truthy(labels) THEN Columns([labels |-> PyStr(<<>>)])
    ELSE LET joined == StrJoin(", ", labels) IN
         IF IsRaise(joined) THEN joined ELSE Columns([labels |-> joined])

\* components / fixVersions / versions:
\*     ", ".join([x.get('name', '') for x in items if x.get('name')])
NamedListField(fields, name, column) ==
    LET listed == DictGet(fields, name, PyList(<<>>)) IN
    IF ~Truthy(listed) THEN Columns([c \in {column} |-> PyStr(<<>>)])
    ELSE LET items == Iterate(listed) IN
         IF IsRaise(items) THEN items
         ELSE IF \E i \in DOMAIN items.v : items.v[i].t # "dict"
         THEN Raise("AttributeError")
         ELSE LET named == SelectSeq(items.v, LAMBDA x : Truthy(DictGet(x, "name", PyNone)))
                  names == PyList([i \in DOMAIN named |-> DictGet(named[i], "name", PyStr(<<>>))])
                  joined == StrJoin(", ", names)
              IN  IF IsRaise(joined) THEN joined
                  ELSE Columns([c \in {column} |-> joined])

\* str(x), float(x): the text is not spelled out.
StrOf(x) == IF x.t = "str" THEN x ELSE PyStr(<<"repr">>)
FloatOf(x) == IF x.t = "int" THEN Py("float", x.v) ELSE PyNone

\* item.get('value') or item.get('name') or str(item)
OptionText(item) ==
    OrElse(DictGet(item, "value", PyNone),
           OrElse(DictGet(item, "name", PyNone), StrOf(item)))

\* A custom field of the configuration, by its declared type.
CustomField(fields, field_id, type) ==
    LET field_value == DictGet(fields, field_id, PyNone) IN
    IF field_value.t = "none" THEN Columns([c \in {field_id} |-> PyNone])
    ELSE IF type = "number" THEN Columns([c \in {field_id} |-> FloatOf(field_value)])
    ELSE IF field_value.t = "dict"
    THEN Columns([c \in {field_id} |-> OptionText(field_value)])
    ELSE IF field_value.t = "list" /\ Truthy(field_value)
    THEN Columns([c \in {field_id} |->
            StrJoin(", ", PyList([i \in DOMAIN field_value.v |->
                IF field_value.v[i].t = "dict" THEN OptionText(field_value.v[i])
                ELSE StrOf(field_value.v[i])]))])
    ELSE Columns([c \in {field_id} |->
            IF Truthy(field_value) THEN StrOf(field_value) ELSE PyNone])

\* The steps of _process_issue_data in the order of the code, for a
\* configuration whose core fields are all the fields the function knows and
\* which declares one text and one number custom field.
MappingSteps(issue_data) ==
    LET fields == DictGet(issue_data, "fields", PyEmptyDict) IN
    << Columns([key |-> DictGet(issue_data, "key", PyNone),
                summary |-> DictGet(fields, "summary", PyStr(<<>>))]),
       Columns([description |-> DictGet(fields, "description", PyStr(<<>>))]),
       ObjectField(fields, "status", {<<"status_id", "id">>, <<"status_name", "name">>}),
       ObjectField(fields, "priority", {<<"priority_id", "id">>, <<"priority_name", "name">>}),
       PersonField(fields, "assignee",
                   {<<"assignee_key", "key">>, <<"assignee_name", "name">>,
                    <<"assignee_display_name", "displayName">>}),
       PersonField(fields, "reporter",
                   {<<"reporter_key", "key">>, <<"reporter_name", "name">>,
                    <<"reporter_display_name", "displayName">>}),
       Columns([created |-> DictGet(fields, "created", PyNone)]),
       Columns([updated |-> DictGet(fields, "updated", PyNone)]),
       CommentField(fields),
       LabelsField(fields),
       NamedListField(fields, "components", "components"),
       NamedListField(fields, "fixVersions", "fix_versions"),
       NamedListField(fields, "versions", "affected_versions"),
       ObjectField(fields, "project", {<<"project_key", "key">>, <<"project_name", "name">>}),
       ObjectField(fields, "issuetype", {<<"issue_type", "name">>}),
       CustomField(fields, "customfield_1", "text"),
       CustomField(fields, "customfield_2", "number") >>

RECURSIVE RunSteps(_, _, _)
RunSteps(steps, i, processed) ==
    IF i > Len(steps) THEN PyDict(processed)
    ELSE IF IsRaise(steps[i]) THEN steps[i]
    ELSE RunSteps(steps, i + 1, steps[i].v @@ processed)

\* Database._process_issue_data over records of any shape: the processed
\* row, or the exception that leaves the function.
ProcessIssueData(issue_data) ==
    RunSteps(MappingSteps(issue_data), 1, [k \in {} |-> PyNone])

\* ---- the records mapped ----

Person == PyDict([key |-> PyStr(<<"u1">>), name |-> PyStr(<<"u1">>),
                  displayName |-> PyStr(<<"User One">>)])
Named(n) == PyDict([id |-> PyStr(<<"1">>), name |-> PyStr(<<n>>)])

\* A well-formed `fields` object.
GoodFields ==
    [summary |-> PyStr(<<"fix ui">>),
     description |-> PyStr(<<"text">>),
     status |-> Named("Open"),
     priority |-> Named("High"),
     assignee |-> Person,
     reporter |-> Person,
     created |-> PyStr(<<"1">>),
     updated |-> PyStr(<<"2">>),
     comment |-> PyDict([comments |->
                    PyList(<<PyDict([author |-> Person, body |-> PyStr(<<"hello">>)])>>)]),
     labels |-> PyList(<<PyStr(<<"a">>), PyStr(<<"b">>)>>),
     components |-> PyList(<<Named("web")>>),
     fixVersions |-> PyList(<<Named("1.0")>>),
     versions |-> PyList(<<Named("0.9")>>),
     project |-> PyDict([key |-> PyStr(<<"X">>), name |-> PyStr(<<"Project X">>)]),
     issuetype |-> Named("Bug"),
     customfield_1 |-> PyDict([value |-> PyStr(<<"team">>)]),
     customfield_2 |-> PyInt(3)]

\* The sub-fields varied, and the column(s) each is mapped to.
SubFields ==
    {"status", "priority", "assignee", "reporter", "comment", "labels",
     "components", "fixVersions", "versions", "project", "issuetype",
     "customfield_1", "customfield_2", "comment.comments", "comment.author"}

\* The shapes a sub-field takes: as expected, missing, null, or a value of
\* another type.
Shapes ==
    {"expected", "missing", "null", "str", "empty_str", "int", "empty_dict",
     "other_dict", "empty_list", "list_of_null", "list_of_str"}

ShapeValue(shape) ==
    CASE shape = "null" -> PyNone
      [] shape = "str" -> PyStr(<<"x">>)
      [] shape = "empty_str" -> PyStr(<<>>)
      [] shape = "int" -> PyInt(7)
      [] shape = "empty_dict" -> PyEmptyDict
      [] shape = "other_dict" -> PyDict([other |-> PyStr(<<"x">>)])
      [] shape = "empty_list" -> PyList(<<>>)
      [] shape = "list_of_null" -> PyList(<<PyNone>>)
      [] shape = "list_of_str" -> PyList(<<PyStr(<<"x">>)>>)

\* d with key set to the shape, or without key.
Shaped(d, key, shape) ==
    IF shape = "expected" THEN d
    ELSE IF shape = "missing" THEN [k \in DOMAIN d \ {key} |-> d[k]]
    ELSE [d EXCEPT ![key] = ShapeValue(shape)]

\* The upstream record whose sub-field has the shape; the other sub-fields
\* are well-formed.
IssueWith(sub_field, shape) ==
    LET comment == GoodFields.comment.v
        first == comment.comments.v[1].v
        fields ==
            IF sub_field = "comment.comments"
            THEN [GoodFields EXCEPT !.comment = PyDict(Shaped(comment, "comments", shape))]
            ELSE IF sub_field = "comment.author"
            THEN [GoodFields EXCEPT !.comment =
                     PyDict([comments |-> PyList(<<PyDict(Shaped(first, "author", shape))>>)])]
            ELSE Shaped(GoodFields, sub_field, shape)
    IN  PyDict([key |-> PyStr(<<"X-1">>), fields |-> PyDict(fields)])

MapIssue ==
    /\ mrun.pc = "input"
    /\ mrun' = [mrun EXCEPT !.pc = "done",
                            !.out = ProcessIssueData(IssueWith(mrun.sub_field, mrun.shape))]
    /\ UNCHANGED <<storeVars, writerVars, lastSearch, jqlVars, sanVars, purgeVars,
                   crun, limiter, sync>>

MapInit ==
    /\ mrun \in {[pc |-> "input", sub_field |-> f, shape |-> s, out |-> PyNone] :
                    f \in SubFields, s \in Shapes}
    /\ crun = [pc |-> "idle"]
    /\ limiter = [pc |-> "idle"]
    /\ sync = [pc |-> "idle"]
    /\ SanIdle
    /\ JqlIdle
    /\ StoreEmpty

MapNext == MapIssue

SpecMap == MapInit /\ [][MapNext]_vars

---------------------------------------------------------------------------
(* A run of load_config on one configuration file, and the tables an       *)
(* accepted configuration gives the store (config.py, database.py)         *)

\* What the validation has collected so far, or the exception that ended it.
Checked(errors, warnings) == [raise |-> "none", errors |-> errors, warnings |-> warnings]
Aborted(kind) == [raise |-> kind, errors |-> {}, warnings |-> {}]
NoFinding == Checked({}, {})

\* One check after another: an exception in either ends the validation.
Then(a, b) ==
    IF a.raise # "none" THEN a
    ELSE IF b.raise # "none" THEN b
    ELSE Checked(a.errors \cup b.errors, a.warnings \cup b.warnings)

\* if not section.get(name): errors.append(message)
Required(section, name, message) ==
    IF Truthy(DictGet(section, name, PyNone)) THEN NoFinding ELSE Checked({message}, {})

\* value = section.get(name, default)
\* if not isinstance(value, int) or value <= 0: errors.append(message)
\* elif value > 1000: warnings.append(...)
PositiveInt(section, name, default, message, warning) ==
    LET value == DictGet(section, name, PyInt(default)) IN
    IF value.t # "int" \/ value.v <= 0 THEN Checked({message}, {})
    ELSE IF value.v > 1000 /\ warning # "" THEN Checked({}, {warning})
    ELSE NoFinding

\* jira_config = self.data.get("jira", {}) and the checks on it
validate_jira(data) ==
    LET jira_config == DictGet(data, "jira", PyEmptyDict) IN
    IF ~Truthy(jira_config) THEN Checked({"jira section is required"}, {})
    ELSE IF jira_config.t # "dict" THEN Aborted("AttributeError")
    ELSE LET url == DictGet(jira_config, "url", PyNone)
             url_check ==
                 IF ~Truthy(url) THEN Checked({"jira.url is required"}, {})
                 ELSE IF url.t # "str" THEN Aborted("AttributeError")
                 ELSE IF url.v[1] \notin {"http://", "https://"}
                      THEN Checked({"jira.url must start with http:// or https://"}, {})
                 ELSE NoFinding
         IN  Then(Then(url_check,
                       Required(jira_config, "username", "jira.username is required")),
                  Required(jira_config, "pat", "jira.pat (Personal Access Token) is required"))

\* sync_config = self.data.get("sync", {}) and the checks on it
validate_sync(data) ==
    LET sync_config == DictGet(data, "sync", PyEmptyDict) IN
    IF ~Truthy(sync_config) THEN Checked({"sync section is required"}, {})
    ELSE IF sync_config.t # "dict" THEN Aborted("AttributeError")
    ELSE LET project_key == DictGet(sync_config, "project_key", PyNone)
             jql == DictGet(sync_config, "jql", PyNone)
             target_check ==
                 IF ~Truthy(project_key) /\ ~Truthy(jql)
                 THEN Checked({"Either sync.project_key or sync.jql must be specified"}, {})
                 ELSE NoFinding
         IN  Then(Then(target_check,
                       PositiveInt(sync_config, "rate_limit", 100,
                                   "sync.rate_limit must be a positive integer",
                                   "sync.rate_limit > 1000 may cause issues with Jira API limits")),
                  PositiveInt(sync_config, "batch_size", 100,
                              "sync.batch_size must be a positive integer",
                              "sync.batch_size > 1000 may cause memory issues"))

\* search_config = self.data.get("search", {}) and the checks on it
validate_search(data) ==
    LET search_config == DictGet(data, "search", PyEmptyDict) IN
    IF ~Truthy(search_config) THEN NoFinding
    ELSE IF search_config.t # "dict" THEN Aborted("AttributeError")
    ELSE Then(PositiveInt(search_config, "max_results", 1000,
                          "search.max_results must be a positive integer", ""),
              PositiveInt(search_config, "timeout_seconds", 5,
                          "search.timeout_seconds must be a positive number", ""))

\* The checks on custom_fields[i]
validate_custom_field(field) ==
    IF field.t # "dict" THEN Checked({"custom_fields[i] must be an object"}, {})
    ELSE LET id == DictGet(field, "id", PyNone)
             id_check ==
                 IF ~Truthy(id) THEN Checked({"custom_fields[i].id is required"}, {})
                 ELSE IF id.t # "str" THEN Aborted("AttributeError")
                 ELSE IF id.v[1] # "customfield_"
                      THEN Checked({}, {"custom_fields[i].id should typically start with 'customfield_'"})
                 ELSE NoFinding
             field_type == DictGet(field, "type", PyStr(<<"text">>))
             type_check ==
                 IF ~(field_type.t = "str" /\ field_type.v \in
                          {<<"text">>, <<"number">>, <<"select">>, <<"multiselect">>, <<"date">>})
                 THEN Checked({}, {"custom_fields[i].type is not a recognized type"})
                 ELSE NoFinding
         IN  Then(Then(id_check,
                       Required(field, "name", "custom_fields[i].name is required")),
                  type_check)

RECURSIVE validate_each(_)
validate_each(items) ==
    IF items = <<>> THEN NoFinding
    ELSE Then(validate_custom_field(Head(items)), validate_each(Tail(items)))

\* custom_fields = self.data.get("custom_fields", []) and the checks on it
validate_custom_fields(data) ==
    LET custom_fields == DictGet(data, "custom_fields", PyList(<<>>)) IN
    IF Truthy(custom_fields) /\ custom_fields.t # "list"
    THEN Checked({"custom_fields must be a list"}, {})
    ELSE LET items == Iterate(custom_fields) IN
         IF IsRaise(items) THEN Aborted(items.v) ELSE validate_each(items.v)

\* The directories os.path.exists finds.
ExistingDirs == {"data"}

\* db_config = self.data.get("database", {}) and the check on its path
validate_database(data) ==
    LET db_config == DictGet(data, "database", PyEmptyDict) IN
    IF ~Truthy(db_config) THEN NoFinding
    ELSE IF db_config.t # "dict" THEN Aborted("AttributeError")
    ELSE LET db_path == DictGet(db_config, "path", PyNone) IN
         IF ~Truthy(db_path) THEN NoFinding
         ELSE IF db_path.t # "str" THEN Aborted("TypeError")
         ELSE IF Len(db_path.v) > 1 /\ db_path.v[1] \notin ExistingDirs
              THEN Checked({}, {"Database directory does not exist"})
         ELSE NoFinding

\* x in container: for the containers a YAML file can give
PyIn(container, x) ==
    CASE container.t = "list" -> \E i \in DOMAIN container.v : container.v[i] = x
      [] container.t = "dict" -> x.t = "str" /\ Len(x.v) = 1 /\ x.v[1] \in DOMAIN container.v
      [] OTHER -> FALSE

\* fields_config = self.data.get("fields", {}) and the checks on it
validate_fields(data) ==
    LET fields_config == DictGet(data, "fields", PyEmptyDict) IN
    IF ~Truthy(fields_config) THEN NoFinding
    ELSE IF fields_config.t # "dict" THEN Aborted("AttributeError")
    ELSE LET core_fields == DictGet(fields_config, "core", PyNone)
             search_fields == DictGet(fields_config, "search", PyNone)
             core_check ==
                 IF Truthy(core_fields) /\ core_fields.t # "list"
                 THEN Checked({"fields.core must be a list"}, {})
                 ELSE IF Truthy(core_fields)
                 THEN Checked({"fields.core must include required field" : req_field \in
                                  {f \in {"key", "summary"} :
                                       ~PyIn(core_fields, PyStr(<<f>>))}}, {})
                 ELSE NoFinding
             search_check ==
                 IF Truthy(search_fields) /\ search_fields.t # "list"
                 THEN Checked({"fields.search must be a list"}, {})
                 ELSE IF Truthy(search_fields) /\ Truthy(core_fields)
                 THEN IF core_fields.t \notin {"list", "dict", "str"} THEN Aborted("TypeError")
                      ELSE Checked({}, {"Search field is not in core fields list" : i \in
                                           {i \in DOMAIN search_fields.v :
                                                ~PyIn(core_fields, search_fields.v[i])}})
                 ELSE NoFinding
         IN  Then(core_check, search_check)

\* Config.validate on the loaded data: ConfigError when a check appended an
\* error, nothing when none did, or the exception a check raised.
validate(data) ==
    LET found == Then(Then(Then(Then(Then(validate_jira(data), validate_sync(data)),
                                     validate_search(data)),
                                validate_custom_fields(data)),
                           validate_database(data)),
                      validate_fields(data))
    IN  IF data.t # "dict" THEN [out |-> "AttributeError", warnings |-> {}]
        ELSE IF found.raise # "none" THEN [out |-> found.raise, warnings |-> {}]
        ELSE IF found.errors # {} THEN [out |-> "ConfigError", warnings |-> found.warnings]
        ELSE [out |-> "Config", warnings |-> found.warnings]

\* Config.core_fields, Config.search_fields, Config.custom_fields
default_fields == <<"key", "summary", "description", "status", "priority", "assignee",
                    "reporter", "created", "updated", "comment", "labels", "issuetype",
                    "components">>
default_search_fields == <<"key", "summary", "description", "comment", "labels">>
PyNames(seq) == PyList([i \in DOMAIN seq |-> PyStr(<<seq[i]>>)])
core_fields(data) ==
    DictGet(DictGet(data, "fields", PyEmptyDict), "core", PyNames(default_fields))
search_fields(data) ==
    DictGet(DictGet(data, "fields", PyEmptyDict), "search", PyNames(default_search_fields))
custom_fields(data) == DictGet(data, "custom_fields", PyList(<<>>))

\* field_mappings of _create_issues_table: the columns of a core field
field_mappings ==
    [description |-> {<<"description">>},
     status |-> {<<"status_id">>, <<"status_name">>},
     priority |-> {<<"priority_id">>, <<"priority_name">>},
     assignee |-> {<<"assignee_key">>, <<"assignee_name">>, <<"assignee_display_name">>},
     reporter |-> {<<"reporter_key">>, <<"reporter_name">>, <<"reporter_display_name">>},
     created |-> {<<"created">>},
     updated |-> {<<"updated">>},
     comment |-> {<<"comments">>},
     labels |-> {<<"labels">>},
     components |-> {<<"components">>},
     fixVersions |-> {<<"fix_versions">>},
     affectedVersions |-> {<<"affected_versions">>}]

\* search_field_mappings of _create_fts_table: the column of a search field
search_field_mappings ==
    [key |-> <<"key">>,
     summary |-> <<"summary">>,
     description |-> <<"description">>,
     comment |-> <<"comments">>,
     labels |-> <<"labels">>,
     components |-> <<"components">>,
     assignee |-> <<"assignee_display_name">>,
     reporter |-> <<"reporter_display_name">>]

\* f"custom_{field['id'].replace('customfield_', '')}"
custom_column(field) ==
    LET id == field.v["id"].v IN
    <<"custom_">> \o (IF id[1] = "customfield_" THEN Tail(id) ELSE id)

\* The column names of CREATE TABLE issues, or the exception raised on the way
issues_columns(data) ==
    LET core == core_fields(data)
        fields == IF IsRaise(core) THEN core ELSE Iterate(core)
        custom == custom_fields(data)
    IN  IF IsRaise(fields) THEN fields
        ELSE Columns({<<"key">>, <<"summary">>}
                 \cup UNION {field_mappings[fields.v[i].v[1]] :
                                i \in {i \in DOMAIN fields.v :
                                          /\ fields.v[i].v[1] \notin {"key", "summary"}
                                          /\ fields.v[i].v[1] \in DOMAIN field_mappings}}
                 \cup {<<"project_key">>, <<"project_name">>, <<"issue_type">>}
                 \cup {custom_column(custom.v[i]) : i \in DOMAIN custom.v}
                 \cup {<<"raw_json">>, <<"synced_at">>, <<"is_deleted">>, <<"deleted_at">>})

\* The column names of CREATE VIRTUAL TABLE issues_fts, or the exception
fts_columns(data) ==
    LET searched == search_fields(data)
        fields == IF IsRaise(searched) THEN searched ELSE Iterate(searched)
        custom == custom_fields(data)
    IN  IF IsRaise(fields) THEN fields
        ELSE Columns({search_field_mappings[fields.v[i].v[1]] :
                         i \in {i \in DOMAIN fields.v :
                                   fields.v[i].v[1] \in DOMAIN search_field_mappings}}
                 \cup {<<"key">>, <<"project_name">>}
                 \cup {custom_column(custom.v[i]) :
                          i \in {i \in DOMAIN custom.v :
                                    LET type == DictGet(custom.v[i], "type", PyNone)
                                    IN  ~(type.t = "str" /\ type.v = <<"number">>)}})

\* The sections of a configuration file and the forms each is written in.
GoodCustomField ==
    PyDict("id" :> PyStr(<<"customfield_", "10001">>) @@ "name" :> PyStr(<<"Team">>)
           @@ "type" :> PyStr(<<"text">>))
SectionForms ==
    [jira |-> {"good", "absent", "null", "str", "list", "no_url", "url_int", "url_ftp",
               "no_pat"},
     sync |-> {"good", "absent", "null", "str", "no_target", "jql_only", "rate_zero",
               "rate_str", "batch_large"},
     search |-> {"absent", "good", "null", "str", "max_zero"},
     custom_fields |-> {"absent", "empty", "null", "str", "int", "good", "number",
                        "not_object", "id_int", "id_other", "no_name"},
     database |-> {"absent", "good", "null", "str", "path_int", "no_directory"},
     fields |-> {"absent", "null", "str", "good", "core_only", "search_only",
                 "search_not_core", "core_no_summary", "core_str"}]
Sections == DOMAIN SectionForms

SectionValue(section, form) ==
    LET url == "url" :> PyStr(<<"https://", "jira.example.com">>)
        username == "username" :> PyStr(<<"user">>)
        pat == "pat" :> PyStr(<<"token">>)
        project_key == "project_key" :> PyStr(<<"TEST">>)
        core == "core" :> PyNames(<<"key", "summary", "description", "labels">>)
    IN
    CASE form = "null" -> PyNone
      [] form = "str" -> PyStr(<<"text">>)
      [] form = "list" -> PyList(<<PyStr(<<"text">>)>>)
      [] form = "int" -> PyInt(5)
      [] form = "empty" -> PyList(<<>>)
      [] section = "jira" ->
            PyDict(CASE form = "no_url" -> username @@ pat
                     [] form = "url_int" -> "url" :> PyInt(8080) @@ username @@ pat
                     [] form = "url_ftp" -> "url" :> PyStr(<<"ftp://", "jira">>) @@ username @@ pat
                     [] form = "no_pat" -> url @@ username
                     [] OTHER -> url @@ username @@ pat)
      [] section = "sync" ->
            PyDict(CASE form = "no_target" -> "rate_limit" :> PyInt(100)
                     [] form = "jql_only" -> "jql" :> PyStr(<<"project = TEST">>)
                     [] form = "rate_zero" -> project_key @@ "rate_limit" :> PyInt(0)
                     [] form = "rate_str" -> project_key @@ "rate_limit" :> PyStr(<<"fast">>)
                     [] form = "batch_large" -> project_key @@ "batch_size" :> PyInt(2000)
                     [] OTHER -> project_key)
      [] section = "search" ->
            PyDict(CASE form = "max_zero" -> "max_results" :> PyInt(0)
                     [] OTHER -> "max_results" :> PyInt(500))
      [] section = "custom_fields" ->
            PyList(CASE form = "number" ->
                            <<PyDict("id" :> PyStr(<<"customfield_", "10002">>)
                                     @@ "name" :> PyStr(<<"Points">>)
                                     @@ "type" :> PyStr(<<"number">>))>>
                     [] form = "not_object" -> <<PyStr(<<"customfield_10001">>)>>
                     [] form = "id_int" ->
                            <<PyDict("id" :> PyInt(10001) @@ "name" :> PyStr(<<"Team">>))>>
                     [] form = "id_other" ->
                            <<PyDict("id" :> PyStr(<<"team">>) @@ "name" :> PyStr(<<"Team">>))>>
                     [] form = "no_name" ->
                            <<PyDict("id" :> PyStr(<<"customfield_", "10001">>))>>
                     [] OTHER -> <<GoodCustomField>>)
      [] section = "database" ->
            PyDict(CASE form = "path_int" -> "path" :> PyInt(1)
                     [] form = "no_directory" -> "path" :> PyStr(<<"nodir", "jira.db">>)
                     [] OTHER -> "path" :> PyStr(<<"jira.db">>))
      [] section = "fields" ->
            PyDict(CASE form = "core_only" -> "core" :> PyNames(<<"key", "summary", "status">>)
                     [] form = "search_only" ->
                            "search" :> PyNames(<<"key", "summary", "components">>)
                     [] form = "search_not_core" ->
                            core @@ "search" :> PyNames(<<"key", "summary", "components">>)
                     [] form = "core_no_summary" -> "core" :> PyNames(<<"key", "labels">>)
                     [] form = "core_str" -> "core" :> PyStr(<<"key">>)
                     [] OTHER -> core @@ "search" :> PyNames(<<"summary", "labels">>))

\* The mapping a file with these section forms is parsed to.
ConfigData(forms) ==
    PyDict([s \in {s \in Sections : forms[s] # "absent"} |-> SectionValue(s, forms[s])])

\* A file that passes: every section absent or well-formed.
GoodForms ==
    [jira |-> "good", sync |-> "good", search |-> "absent", custom_fields |-> "good",
     database |-> "absent", fields |-> "absent"]

\* The files of the run: a good file with up to two sections rewritten, and
\* the files that are not a mapping at all.
ConfigForms ==
    {[[GoodForms EXCEPT ![s1] = f1] EXCEPT ![s2] = f2] :
        <<s1, f1, s2, f2>> \in {<<s1, f1, s2, f2>> \in
                                   Sections \X (UNION {SectionForms[s] : s \in Sections})
                                            \X Sections \X (UNION {SectionForms[s] : s \in Sections}) :
                                   f1 \in SectionForms[s1] /\ f2 \in SectionForms[s2]}}
ConfigFiles ==
    {[kind |-> k, forms |-> GoodForms] :
        k \in {"missing", "unset_var", "invalid_yaml", "empty", "scalar", "sequence"}}
    \cup {[kind |-> "mapping", forms |-> forms] : forms \in ConfigForms}

\* yaml.safe_load(content) for a file that exists, is YAML and has its
\* variables set
safe_load(file) ==
    CASE file.kind = "empty" -> PyNone
      [] file.kind = "scalar" -> PyStr(<<"text">>)
      [] file.kind = "sequence" -> PyList(<<PyStr(<<"text">>)>>)
      [] OTHER -> ConfigData(file.forms)

\* Config.load: the file must exist, be readable with every ${VAR} set or
\* defaulted, and be YAML; then self.data = yaml.safe_load(content) or {}
\* and self.validate().
load(file) ==
    IF file.kind \in {"missing", "unset_var", "invalid_yaml"}
    THEN [out |-> "ConfigError", warnings |-> {}, data |-> PyNone]
    ELSE LET data == OrElse(safe_load(file), PyEmptyDict)
             v == validate(data)
         IN  [out |-> v.out, warnings |-> v.warnings, data |-> data]

\* config = load_config(config_path)
LoadConfig ==
    /\ crun.pc = "input"
    /\ LET r == load(crun.file) IN
       crun' = [crun EXCEPT !.pc = "done", !.out = r.out, !.warnings = r.warnings,
                            !.data = r.data]
    /\ UNCHANGED <<storeVars, writerVars, lastSearch, jqlVars, sanVars, purgeVars,
                   mrun, limiter, sync>>

\* Database(config).initialize(): _create_issues_table and _create_fts_table
CreateTables ==
    /\ crun.pc = "done"
    /\ crun.out = "Config"
    /\ crun' = [crun EXCEPT !.pc = "created",
                            !.issues_columns = issues_columns(crun.data),
                            !.fts_columns = fts_columns(crun.data)]
    /\ UNCHANGED <<storeVars, writerVars, lastSearch, jqlVars, sanVars, purgeVars,
                   mrun, limiter, sync>>

ConfigInit ==
    /\ crun \in {[pc |-> "input", file |-> f, out |-> "none", warnings |-> {},
                  data |-> PyNone, issues_columns |-> PyNone, fts_columns |-> PyNone] :
                    f \in ConfigFiles}
    /\ mrun = [pc |-> "idle"]
    /\ limiter = [pc |-> "idle"]
    /\ sync = [pc |-> "idle"]
    /\ SanIdle
    /\ JqlIdle
    /\ StoreEmpty

ConfigNext ==
    \/ LoadConfig
    \/ CreateTables

SpecConfig == ConfigInit /\ [][ConfigNext]_vars

---------------------------------------------------------------------------
(* A run of the sync command against an upstream that changes (cli.py)     *)

MaxEdits == 1       \* upstream modifications
SyncMaxTime == 2    \* the clock's last tick
TicksPerMinute == 2 \* clock ticks in a minute, the unit of '%Y-%m-%d %H:%M'
BatchSize == 1      \* config.sync_batch_size

\* dt.strftime('%Y-%m-%d %H:%M'): the start of the minute of a time
jql_timestamp(time) == (time \div TicksPerMinute) * TicksPerMinute

\* total = None in search_issues_paginated before its first page
NoTotal == 0 - 1

\* The flags of a run: --full, --incremental, --dry-run
SyncModes ==
    {[full |-> FALSE, incremental |-> FALSE, dry_run |-> FALSE],
     [full |-> TRUE, incremental |-> FALSE, dry_run |-> FALSE],
     [full |-> FALSE, incremental |-> TRUE, dry_run |-> FALSE],
     [full |-> TRUE, incremental |-> FALSE, dry_run |-> TRUE]}

\* The upstream issues in the order the search returns them, and the record
\* of one of them as last modified at `updated`.
UpstreamKeys == <<k_X1, k_X2>>
UpstreamIssue(key, updated) ==
    Issue(key, IF key = k_X1 THEN s_fix_ui ELSE s_fix_db, NULL, <<>>, updated, v_a)

\* The base query matches every upstream issue; the incremental filter
\* `updated >= '<since>'` keeps those modified at or after `since`.
SyncMatches(upstream, since) ==
    SelectSeq(UpstreamKeys, LAMBDA k : since = NoTime \/ upstream[k] >= since)

\* client.search_issues(jql, start_at, max_results)['issues']
SyncPage(upstream, since, start_at, max_results) ==
    LET hits == SyncMatches(upstream, since) IN
    [i \in 1..Min(max_results, Len(hits) - start_at) |->
        UpstreamIssue(hits[start_at + i], upstream[hits[start_at + i]])]

\* The row the mirror holds for the current upstream version of `key`.
Mirrored(upstream, key) ==
    \E r \in issues : r.raw_json = UpstreamIssue(key, upstream[key])

\* A loop that gives up at the first issue it cannot upsert.
AfterFailure_Abort(run) ==
    [run EXCEPT !.error_count = @ + 1, !.pc = "aborted", !.cause = "Exception"]

\* except Exception: error_count += 1, and the loop goes on
AfterFailure(run) == [run EXCEPT !.error_count = @ + 1]

\* The loop asking for the next issue, unless an exception has left it; the
\* generator resumed after the last issue of a page does
\* start_at += len(issues); if start_at >= total: break
AfterIssue(run) ==
    IF run.pc # "looping" THEN [run EXCEPT !.yielded = @ + 1]
    ELSE IF Len(run.page) > 1 THEN [run EXCEPT !.page = Tail(@), !.yielded = @ + 1]
    ELSE LET at == run.start_at + run.page_len IN
         [run EXCEPT !.page = <<>>, !.yielded = @ + 1, !.start_at = at,
                     !.pc = IF at >= run.gen_total THEN "finishing" ELSE "fetching"]

\* db.initialize(), the base query, the incremental filter, and for a full
\* re-sync db.clear_issues()
SyncBegin(mode) ==
    /\ sync.pc \in {"ready", "exited", "aborted", "returned", "done"}
    /\ sync.run # "second"
    /\ LET table == create_metadata_table(meta)
           last_sync_time == table[1].last_sync_time
           since == IF mode.incremental /\ ~mode.full /\ last_sync_time # NoTime
                    THEN jql_timestamp(last_sync_time) ELSE NoTime
           clears == mode.full /\ ~mode.dry_run
       IN  /\ meta' = table
           /\ issues' = IF clears THEN {} ELSE issues
           /\ fts' = IF clears THEN TriggerDeleteAll(fts, issues) ELSE fts
           /\ sync' = [sync EXCEPT !.pc = "started", !.mode = mode,
                                   !.run = IF @ = "none" THEN "first" ELSE "second",
                                   !.since = since, !.cause = "none",
                                   !.previous = [pc |-> sync.pc,
                                                 error_count |-> sync.error_count],
                                   !.before = [issues |-> issues, fts |-> fts, meta |-> meta],
                                   !.total = 0, !.gen_total = NoTotal, !.start_at = 0,
                                   !.page = <<>>, !.page_len = 0, !.synced_count = 0,
                                   !.added_count = 0, !.updated_count = 0,
                                   !.error_count = 0, !.yielded = 0, !.failed = {}]
    /\ UNCHANGED <<now, lastUpsert, writerVars, lastSearch, jqlVars, sanVars, purgeVars,
                   mrun, crun, limiter>>

\* connection_result = client.test_connection(); sys.exit(1) unless success
TestConnection ==
    /\ sync.pc = "started"
    /\ \E success \in BOOLEAN :
          sync' = IF success THEN [sync EXCEPT !.pc = "connected"]
                  ELSE [sync EXCEPT !.pc = "exited", !.cause = "connection"]
    /\ UNCHANGED <<storeVars, writerVars, lastSearch, jqlVars, sanVars, purgeVars,
                   mrun, crun, limiter>>

\* if not client.validate_jql(sync_jql): sys.exit(1)
ValidateJql ==
    /\ sync.pc = "connected"
    /\ \E valid \in BOOLEAN :
          sync' = IF valid THEN [sync EXCEPT !.pc = "validated"]
                  ELSE [sync EXCEPT !.pc = "exited", !.cause = "invalid_jql"]
    /\ UNCHANGED <<storeVars, writerVars, lastSearch, jqlVars, sanVars, purgeVars,
                   mrun, crun, limiter>>

\* count_result = client.search_issues(sync_jql, max_results=0); a dry run
\* and a run with nothing to sync return here.
CountIssues ==
    /\ sync.pc = "validated"
    /\ \E answered \in BOOLEAN :
          LET total == Len(SyncMatches(sync.upstream, sync.since)) IN
          sync' = IF ~answered
                  THEN [sync EXCEPT !.pc = "aborted", !.cause = "JiraClientError"]
                  ELSE IF sync.mode.dry_run \/ total = 0
                  THEN [sync EXCEPT !.pc = "returned", !.total = total]
                  ELSE [sync EXCEPT !.pc = "fetching", !.total = total, !.started_at = now]
    /\ UNCHANGED <<storeVars, writerVars, lastSearch, jqlVars, sanVars, purgeVars,
                   mrun, crun, limiter>>

\* search_issues_paginated asking for the next page
FetchPage ==
    /\ sync.pc = "fetching"
    /\ \E answered \in BOOLEAN :
          LET found == SyncPage(sync.upstream, sync.since, sync.start_at, BatchSize)
              total == IF sync.gen_total = NoTotal
                       THEN Len(SyncMatches(sync.upstream, sync.since))
                       ELSE sync.gen_total
          IN  sync' = IF ~answered
                      THEN [sync EXCEPT !.pc = "aborted", !.cause = "JiraClientError"]
                      ELSE IF Len(found) = 0
                      THEN [sync EXCEPT !.pc = "finishing", !.gen_total = total]
                      ELSE [sync EXCEPT !.pc = "looping", !.gen_total = total,
                                        !.page = found, !.page_len = Len(found)]
    /\ UNCHANGED <<storeVars, writerVars, lastSearch, jqlVars, sanVars, purgeVars,
                   mrun, crun, limiter>>

\* One turn of the loop: was_existing = db.upsert_issue_with_stats(issue) and
\* the counters, or the except branch when the upsert raised.
SyncIssue ==
    /\ sync.pc = "looping"
    /\ LET issue == Head(sync.page) IN
       \E upserted \in BOOLEAN :
          IF upserted
          THEN LET was_existing == \E r \in issues : r.key = issue.key
                   new == NewRow(process_issue_data(issue), issue, NextRowid(issues), now)
               IN  /\ issues' = ReplaceRows(issues, new)
                   /\ fts' = ReplaceIndex(fts, issues, new)
                   /\ lastUpsert' = {d \in lastUpsert : d.key # issue.key} \cup {issue}
                   /\ sync' = AfterIssue(
                          [sync EXCEPT !.synced_count = @ + 1,
                                       !.updated_count = IF was_existing THEN @ + 1 ELSE @,
                                       !.added_count = IF was_existing THEN @ ELSE @ + 1])
          ELSE /\ sync' = AfterIssue(AfterFailure([sync EXCEPT !.failed = @ \cup {issue.key}]))
               /\ UNCHANGED <<issues, fts, lastUpsert>>
    /\ UNCHANGED <<now, meta, writerVars, lastSearch, jqlVars, sanVars, purgeVars,
                   mrun, crun, limiter>>

\* db.update_sync_metadata(sync_jql, is_full_sync=full, sync_stats=...,
\* duration_seconds=...), or the DatabaseError it raises
RecordOutcome ==
    /\ sync.pc = "finishing"
    /\ \E stored \in BOOLEAN :
          IF stored
          THEN /\ meta' = UpdatedMetadata(meta, [base |-> sq_project_a, since |-> sync.since],
                              sync.mode.full,
                              [processed |-> sync.synced_count, added |-> sync.added_count,
                               updated |-> sync.updated_count, deleted |-> 0],
                              now - sync.started_at)
               /\ sync' = [sync EXCEPT !.pc = "done"]
          ELSE /\ sync' = [sync EXCEPT !.pc = "aborted", !.cause = "DatabaseError"]
               /\ UNCHANGED meta
    /\ UNCHANGED <<issues, fts, lastUpsert, now, writerVars, lastSearch, jqlVars, sanVars,
                   purgeVars, mrun, crun, limiter>>

\* Someone modifies an issue upstream: its `updated` becomes the current time.
UpstreamEdit(key) ==
    /\ sync.edits < MaxEdits
    /\ sync' = [sync EXCEPT !.upstream[key] = now, !.edits = @ + 1]
    /\ UNCHANGED <<storeVars, writerVars, lastSearch, jqlVars, sanVars, purgeVars,
                   mrun, crun, limiter>>

SyncTick ==
    /\ now < SyncMaxTime
    /\ now' = now + 1
    /\ UNCHANGED <<issues, fts, meta, lastUpsert, writerVars, lastSearch, jqlVars, sanVars,
                   purgeVars, runVars>>

\* Before the first of two runs: nothing mirrored, the upstream issues last modified
\* at time 0, and the clock one tick later.
SyncInit ==
    /\ sync = [pc |-> "ready", run |-> "none", upstream |-> [k \in Keys |-> 0], edits |-> 0,
               mode |-> [full |-> FALSE, incremental |-> FALSE, dry_run |-> FALSE],
               since |-> NoTime, cause |-> "none",
               previous |-> [pc |-> "ready", error_count |-> 0],
               before |-> [issues |-> {}, fts |-> {}, meta |-> <<>>],
               total |-> 0, gen_total |-> NoTotal, start_at |-> 0, page |-> <<>>,
               page_len |-> 0, started_at |-> 0, synced_count |-> 0, added_count |-> 0,
               updated_count |-> 0, error_count |-> 0, yielded |-> 0, failed |-> {}]
    /\ mrun = [pc |-> "idle"]
    /\ crun = [pc |-> "idle"]
    /\ limiter = [pc |-> "idle"]
    /\ issues = {}
    /\ fts = {}
    /\ meta = <<>>
    /\ lastUpsert = {}
    /\ now = 1
    /\ wpc = [w \in Writers |-> "idle"]
    /\ wrec = [w \in Writers |-> NULL]
    /\ wexisting = [w \in Writers |-> FALSE]
    /\ wpresent = [w \in Writers |-> FALSE]
    /\ lastSearch = [mode |-> "", query |-> <<>>, limit |-> 0, offset |-> 0,
                     clock |-> "in_time", status |-> 0, error |-> "",
                     message |-> "", results |-> <<>>, total |-> 0]
    /\ PurgeIdle
    /\ SanIdle
    /\ JqlIdle

SyncNext ==
    \/ \E mode \in SyncModes : SyncBegin(mode)
    \/ TestConnection
    \/ ValidateJql
    \/ CountIssues
    \/ FetchPage
    \/ SyncIssue
    \/ RecordOutcome
    \/ \E key \in Keys : UpstreamEdit(key)
    \/ SyncTick

SpecSync == SyncInit /\ [][SyncNext]_vars

---------------------------------------------------------------------------
(* RateLimiter.is_allowed called by the clients of the API (api_auth.py)   *)

AnonymousLimit == 2   \* requests per window for a client known by its IP
ApiKeyLimit == 3      \* requests per window for a client with an API key
Window == 2           \* seconds in the window
LimiterMaxTime == 5   \* the clock's last second
MaxCalls == 8         \* calls of is_allowed in one run

Clients == {"ip", "api_key"}

\* get_rate_limit_for_client
get_rate_limit_for_client(client_id) ==
    IF client_id = "api_key" THEN ApiKeyLimit ELSE AnonymousLimit

\* while requests and requests[0] < now - window: requests.popleft()
RECURSIVE CleanOld(_, _)
CleanOld(requests, oldest_kept) ==
    IF requests # <<>> /\ Head(requests) < oldest_kept
    THEN CleanOld(Tail(requests), oldest_kept)
    ELSE requests

\* A block that lasts a window from the denied request on.
ResetTime_FromNow(oldest_request, time, window) == time + window

\* reset_time = oldest_request + window
ResetTime(oldest_request, time, window) == oldest_request + window

\* RateLimiter.is_allowed(key, limit, window) at time `time`: the limiter
\* after the call and the (is_allowed, rate_limit_info) it returns.
is_allowed(lim, key, limit, window, time) ==
    IF lim.blocked_until[key] # NoTime /\ time < lim.blocked_until[key]
    THEN [lim EXCEPT !.last = [key |-> key, at |-> time, allowed |-> FALSE,
                               remaining |-> 0,
                               reset_time |-> lim.blocked_until[key],
                               blocked_for |-> lim.blocked_until[key] - time]]
    ELSE LET requests == CleanOld(lim.requests[key], time - window) IN
         IF Len(requests) >= limit
         THEN LET reset_time == ResetTime(Head(requests), time, window) IN
              [lim EXCEPT !.requests[key] = requests,
                          !.blocked_until[key] = reset_time,
                          !.last = [key |-> key, at |-> time, allowed |-> FALSE,
                                    remaining |-> 0, reset_time |-> reset_time,
                                    blocked_for |-> reset_time - time]]
         ELSE [lim EXCEPT !.requests[key] = Append(requests, time),
                          !.admitted[key] = Append(@, time),
                          !.last = [key |-> key, at |-> time, allowed |-> TRUE,
                                    remaining |-> limit - (Len(requests) + 1),
                                    reset_time |-> time + window, blocked_for |-> 0]]

\* apply_rate_limit: rate_limiter.is_allowed(client_id, limit=rate_limit, ...)
Request(client_id) ==
    /\ limiter.pc = "serving"
    /\ limiter.calls < MaxCalls
    /\ limiter' = [is_allowed(limiter, client_id, get_rate_limit_for_client(client_id),
                              Window, limiter.clock)
                      EXCEPT !.calls = @ + 1]
    /\ UNCHANGED <<storeVars, writerVars, lastSearch, jqlVars, sanVars, purgeVars,
                   mrun, crun, sync>>

\* time.time() moves on
LimiterTick ==
    /\ limiter.pc = "serving"
    /\ limiter.clock < LimiterMaxTime
    /\ limiter' = [limiter EXCEPT !.clock = @ + 1]
    /\ UNCHANGED <<storeVars, writerVars, lastSearch, jqlVars, sanVars, purgeVars,
                   mrun, crun, sync>>

LimiterInit ==
    /\ limiter = [pc |-> "serving", clock |-> 0, calls |-> 0,
                  requests |-> [c \in Clients |-> <<>>],
                  blocked_until |-> [c \in Clients |-> NoTime],
                  admitted |-> [c \in Clients |-> <<>>],
                  last |-> [key |-> "none", at |-> 0, allowed |-> TRUE, remaining |-> 0,
                            reset_time |-> 0, blocked_for |-> 0]]
    /\ mrun = [pc |-> "idle"]
    /\ crun = [pc |-> "idle"]
    /\ sync = [pc |-> "idle"]
    /\ SanIdle
    /\ JqlIdle
    /\ StoreEmpty

LimiterNext ==
    \/ \E client_id \in Clients : Request(client_id)
    \/ LimiterTick

SpecLimiter == LimiterInit /\ [][LimiterNext]_vars

---------------------------------------------------------------------------
(* The filter interpreter on queries whose values are quoted               *)

\* "<text>"
Quoted(text) == <<"\"">> \o text \o <<"\"">>

\* Quoted values: a plain word, words separated by a space, and values that
\* hold an operator token, the word AND, or the word IN between spaces.
qv_a == Quoted(v_a)
qv_a_b == Quoted(<<"a", " ", "b">>)
qv_a_eq_b == Quoted(<<"a", " ", "=", " ", "b">>)
qv_a_and_b == Quoted(<<"a", " ", "a", "n", "d", " ", "b">>)
qv_a_in_b == Quoted(<<"a", " ", "i", "n", " ", "b">>)
QuotedValues == {qv_a, qv_a_b, qv_a_eq_b, qv_a_and_b, qv_a_in_b}

QuotedFields == {f_labels, f_Project, f_assignee}

QuotedFirstConds ==
    {JqlCond(<<>>, f, op, <<v>>) : f \in QuotedFields, op \in JqlSimpleOps, v \in QuotedValues}
    \cup {JqlCond(<<>>, f, op_in, <<v>>) : f \in QuotedFields, v \in QuotedValues}
    \cup {JqlCond(<<>>, f, op_in, <<v_a, v>>) : f \in QuotedFields, v \in QuotedValues}

QuotedMoreConds ==
    { JqlCond(conn_AND, f_Project, op_eq, <<qv_a>>),
      JqlCond(conn_and, f_labels, op_tilde, <<qv_a_b>>) }

QuotedQueries ==
    {<<c>> : c \in QuotedFirstConds}
    \cup {<<c, d>> : c \in QuotedFirstConds, d \in QuotedMoreConds}

QuotedInit ==
    /\ jq \in QuotedQueries
    /\ jrow = [labels |-> NoList, assignee |-> NULL, project |-> NULL]
    /\ jpc = "input"
    /\ jres = JQLError
    /\ jmatch = FALSE
    /\ SanIdle
    /\ RunsIdle
    /\ StoreEmpty

SpecQuoted == QuotedInit /\ [][JqlNext]_vars

---------------------------------------------------------------------------
(* Properties of the filter interpreter (checked under SpecJql)            *)

\* The value a raw value text denotes: surrounding quotes are not part of it.
Unquoted(raw) == StripQuotes(raw)

\* The column a field name is mapped to, case-insensitively.
ColumnOfField(field) == MappingGet(Lower(field))

\* The parameters a condition must bind, read off the query as written
\* (currentUser() stands for the fixed placeholder name).
ExpectedParams(c) ==
    LET col == ColumnOfField(c.field)
        vs == [i \in 1..Len(c.vals) |-> Unquoted(c.vals[i])]
        v == vs[1]
        four(x) == << x, x \o <<",", "%">>, <<"%", ",", " ">> \o x,
                      <<"%", ",", " ">> \o x \o <<",", "%">> >>
    IN  IF c.op = op_in
        THEN IF col \in {c_labels, c_components}
             THEN Flatten([i \in 1..Len(vs) |-> four(vs[i])])
             ELSE vs
        ELSE IF c.op = op_tilde THEN << <<"%">> \o v \o <<"%">> >>
        ELSE IF Lower(v) = t_null /\ c.op \in {op_eq, op_ne} THEN <<>>
        ELSE LET w == IF Lower(v) = t_currentuser THEN t_placeholder ELSE v
             IN  IF col \in {c_labels, c_components} /\ c.op \in {op_eq, op_ne}
                 THEN four(w)
                 ELSE <<w>>

\* What may appear literally in a compiled predicate.
SqlVocabulary ==
    {JQL_FIELD_MAPPING[i][2] : i \in 1..Len(JQL_FIELD_MAPPING)}
    \cup {op_eq, op_ne, op_gt, op_ge, op_lt, op_le, op_in,
          kw_LIKE, kw_NOT, kw_IS, kw_NULL, kw_OR, kw_AND, kw_LP, kw_RP, kw_COMMA, kw_Q}

\* C4: every accepted filter query compiles to a predicate made only of mapped
\* column names, fixed operators/keywords and ? placeholders; it has as many
\* placeholders as parameters, and the parameters are those of the query's
\* conditions and values, left to right.
C4_ParametrizedOnly ==
    jpc \in {"parsed", "done"} =>
        LET toks == SqlTokens(jres.sql) IN
        /\ \A i \in 1..Len(toks) : toks[i] \in SqlVocabulary
        /\ Cardinality({i \in 1..Len(toks) : toks[i] = kw_Q}) = Len(jres.params)
        /\ jres.params = Flatten([i \in 1..Len(jq) |-> ExpectedParams(jq[i])])

\* An accepted two-condition query with an IN list over the flattened column.
C4_Witness ==
    /\ jpc = "parsed"
    /\ Len(jq) = 2
    /\ jq[1].field = f_labels /\ jq[1].op = op_in /\ Len(jq[1].vals) = 2
    /\ Len(jres.params) = 9

\* Is the run a single condition `labels <op> ...` that has been executed?
LabelsRun(op) ==
    /\ jpc = "done"
    /\ Len(jq) = 1
    /\ jq[1].field = f_labels
    /\ jq[1].op = op

\* C7: on a row whose labels column is a comma+space joined list of names,
\* `labels = v` matches exactly when v is one whole element of the list.
C7_EqualsIsWholeElement ==
    (LabelsRun(op_eq) /\ jrow.labels # NoList /\ Lower(Unquoted(jq[1].vals[1])) # t_null)
        => (jmatch <=> \E i \in 1..Len(jrow.labels) :
                           jrow.labels[i] = Unquoted(jq[1].vals[1]))

\* The outcome of the same run with `=` written in place of the operator.
EqualsTwinSelects ==
    LET twin == parse_jql(RenderQuery(<<[jq[1] EXCEPT !.op = op_eq]>>))
    IN  twin.ok /\ WhereSelects(twin.sql, twin.params, JqlRowOf(jrow))

C9_InIsMembership ==
    (jpc = "done" /\ Len(jq) = 1 /\ jq[1].op = op_in
        /\ jq[1].field \in {f_labels, f_Project})
        => LET vs == {Unquoted(jq[1].vals[i]) : i \in 1..Len(jq[1].vals)} IN
           jmatch <=>
               IF jq[1].field = f_labels
               THEN /\ jrow.labels # NoList
                    /\ \E i \in 1..Len(jrow.labels) : jrow.labels[i] \in vs
               ELSE jrow.project \in vs

\* The scalar half of C9 alone: IN over project_key is set membership.
C9_ScalarInIsMembership ==
    (jpc = "done" /\ Len(jq) = 1 /\ jq[1].op = op_in /\ jq[1].field = f_Project)
        => (jmatch <=> jrow.project \in
                           {Unquoted(jq[1].vals[i]) : i \in 1..Len(jq[1].vals)})

---------------------------------------------------------------------------
(* Properties of the mirror store                                          *)

\* C1: every non-deleted row has exactly one full-text shadow entry, equal to
\* the row's current column values, and no shadow entry remains for a row
\* that was deleted or replaced.
C1_ShadowInSync ==
    /\ \A r \in issues :
           ~r.is_deleted => {e \in fts : e.rowid = r.rowid} = {FtsEntry(r)}
    /\ \A e \in fts : \E r \in issues : e = FtsEntry(r)

\* Rows r (before a step) and r2 (after it) such that the step upserted, for
\* the key of the live row r, the very record r was written from.
SameRecordAgain(r, r2) ==
    /\ r.key = r2.key
    /\ r2.rowid # r.rowid
    /\ r2.raw_json = r.raw_json
    /\ ~r.is_deleted

OneRowPerKey == \A r1, r2 \in issues : r1.key = r2.key => r1 = r2

\* Each row is, in full, the mapping of the record last upserted for its key.
RowsMappedFromLastUpsert ==
    \A r \in issues :
        \E d \in lastUpsert :
            /\ d.key = r.key
            /\ r.raw_json = d
            /\ MappedColumns(r) = process_issue_data(d)

\* C2 as stated: one row per key, mapped in full from the record upserted
\* last, and upserting the same record again leaves the table contents as
\* they were.
C2_LastWriteWinsSameContents ==
    /\ [](OneRowPerKey /\ RowsMappedFromLastUpsert)
    /\ [][\A r \in issues, r2 \in issues' :
             SameRecordAgain(r, r2) => DeclaredColumns(r2) = DeclaredColumns(r)]_vars

\* C2 as amended: the same, except that the second upsert refreshes synced_at.
C2_LastWriteWins ==
    /\ [](OneRowPerKey /\ RowsMappedFromLastUpsert)
    /\ [][\A r \in issues, r2 \in issues' :
             SameRecordAgain(r, r2) =>
                 DeclaredColumns(r2) = [DeclaredColumns(r) EXCEPT !.synced_at = now]]_vars

\* A key upserted a second time with a record that drops the assignee: the
\* row holds the second record only (the first is still seen in the index).
C2_Witness ==
    \E r \in issues :
        /\ r.key = k_X1 /\ r.rowid = 2
        /\ r.summary = s_add_db /\ r.assignee_display_name = NULL
        /\ \E e \in fts : e.rowid = 1 /\ e.key = k_X1 /\ e.summary = s_fix_ui

\* C5: when writers upsert the same key concurrently, one row exists for the
\* key once they are done, it is in full the record of the writer that
\* committed last, and the shadow holds exactly one entry for that key,
\* matching that row.
C5_ConcurrentUpsertsSerialize ==
    \A k \in Keys :
        ((\A w \in Writers : wpc[w] = "done" /\ wrec[w].key = k)
            => \E r \in issues :
                  /\ {x \in issues : x.key = k} = {r}
                  /\ r.raw_json \in lastUpsert
                  /\ MappedColumns(r) = process_issue_data(r.raw_json)
                  /\ {e \in fts : e.key = k} = {FtsEntry(r)})

\* The row half of C5 alone.
C5_RowIsLastCommitted ==
    \A k \in Keys :
        ((\A w \in Writers : wpc[w] = "done" /\ wrec[w].key = k)
            => \E r \in issues :
                  /\ {x \in issues : x.key = k} = {r}
                  /\ r.raw_json \in lastUpsert
                  /\ MappedColumns(r) = process_issue_data(r.raw_json))

\* C6: upsert_issue_with_stats returns true exactly when a row with the key
\* was present at the moment its own write took effect.
C6_ReturnsWasPresent ==
    \A w \in Writers : wpc[w] = "done" => (wexisting[w] <=> wpresent[w])

\* Keys of the rows that are soft-deleted.
SoftDeleted(rows) == {r.key : r \in {x \in rows : x.is_deleted}}

ResultKeys(s) == {s.results[i].key : i \in DOMAIN s.results}

\* The rows a search in the given mode can select, deleted or not.
Selected(s, rows, index) ==
    IF s.mode = "natural"
    THEN {r \in rows : \/ r.key = Strip(s.query)
                       \/ FtsMatch(sanitize_fts_query(s.query),
                                   {e \in index : e.rowid = r.rowid})}
    ELSE IF s.mode = "jql"
    THEN {r \in rows : WhereSelects(parse_jql(s.query).sql, parse_jql(s.query).params, r)}
    ELSE {r \in rows : \/ RegexSearch(s.query, r.summary)
                       \/ RegexSearch(s.query, r.assignee_display_name)}

\* C3: a search in any of the three modes returns no soft-deleted row and
\* counts none in its total.
C3_SearchExcludesDeleted ==
    [][(lastSearch' # lastSearch /\ lastSearch'.error = "")
        => /\ ResultKeys(lastSearch') \cap SoftDeleted(issues') = {}
           /\ lastSearch'.total
                <= Cardinality({r \in Selected(lastSearch', issues', fts') : NotDeleted(r)})]_vars

\* The natural-mode half of C3 alone.
C3_NaturalExcludesDeleted ==
    [][(lastSearch' # lastSearch /\ lastSearch'.error = "" /\ lastSearch'.mode = "natural")
        => ResultKeys(lastSearch') \cap SoftDeleted(issues') = {}]_vars

\* C10: `assignee = null` returns exactly the non-deleted rows without an
\* assignee, `assignee != null` exactly the non-deleted rows with one.
C10_NullFiltersComplement ==
    [][(lastSearch' # lastSearch /\ lastSearch'.error = "" /\ lastSearch'.mode = "jql"
        /\ lastSearch'.offset = 0 /\ lastSearch'.limit = MaxRowid)
        => /\ lastSearch'.query = q_assignee_null
                => ResultKeys(lastSearch')
                     = {r.key : r \in {x \in issues' : NotDeleted(x)
                                          /\ x.assignee_display_name = NULL}}
           /\ lastSearch'.query = q_assignee_not_null
                => ResultKeys(lastSearch')
                     = {r.key : r \in {x \in issues' : NotDeleted(x)
                                          /\ x.assignee_display_name # NULL}}]_vars

\* C10 without its last clause: over all rows, deleted or not, the two
\* filters split the table by whether the assignee is null.
C10_NullFiltersSplitTable ==
    [][(lastSearch' # lastSearch /\ lastSearch'.error = "" /\ lastSearch'.mode = "jql"
        /\ lastSearch'.offset = 0 /\ lastSearch'.limit = MaxRowid)
        => /\ lastSearch'.query = q_assignee_null
                => ResultKeys(lastSearch')
                     = {r.key : r \in {x \in issues' : x.assignee_display_name = NULL}}
           /\ lastSearch'.query = q_assignee_not_null
                => ResultKeys(lastSearch')
                     = {r.key : r \in {x \in issues' : x.assignee_display_name # NULL}}]_vars

\* Is the run a single executed condition that compares a field with
\* currentUser() by one of =, !=, >, >=, <, <= ?
CurrentUserRun(ops) ==
    /\ jpc = "done"
    /\ Len(jq) = 1
    /\ jq[1].op \in ops
    /\ Lower(Unquoted(jq[1].vals[1])) = t_currentuser

\* C11: a condition whose value is currentUser() selects no row, for every
\* mapped field and each of =, !=, >, >=, <, <=.
C11_CurrentUserMatchesNothing ==
    CurrentUserRun({op_eq, op_ne, op_gt, op_ge, op_lt, op_le}) => ~jmatch

\* The `=` part of C11 alone.
C11_EqualsCurrentUserMatchesNothing ==
    CurrentUserRun({op_eq}) => ~jmatch

\* Did the step run a free-text search for an exact issue key whose row is in
\* the table and not soft-deleted?
ExactKeySearched ==
    /\ lastSearch' # lastSearch
    /\ lastSearch'.mode = "natural"
    /\ IsIssueKey(Strip(lastSearch'.query))
    /\ \E r \in issues' : r.key = Strip(lastSearch'.query) /\ NotDeleted(r)

\* C12: a free-text query that is the key of a non-deleted row is answered
\* by the key lookup alone, for every limit and offset: no other row is
\* returned and the total is 1.
C12_ExactKeyAnswersDirectly ==
    [][ExactKeySearched
        => /\ lastSearch'.error = ""
           /\ ResultKeys(lastSearch') \subseteq {Strip(lastSearch'.query)}
           /\ lastSearch'.total = 1]_vars

\* C12 for the pages that start at offset 0: the row itself, total 1.
C12_FirstPageAnswersDirectly ==
    [][(ExactKeySearched /\ lastSearch'.offset = 0)
        => /\ lastSearch'.error = ""
           /\ ResultKeys(lastSearch') = {Strip(lastSearch'.query)}
           /\ lastSearch'.total = 1]_vars

HasSpecial(q) == \E i \in 1..Len(q) : q[i] \in special_chars

\* Does every run of double quotes in s have even length?
QuotesDoubled(s) ==
    \A i \in 1..Len(s) :
        (s[i] = "\"" /\ (i = 1 \/ s[i - 1] # "\""))
            => \E j \in i..Len(s) :
                   /\ \A k \in i..j : s[k] = "\""
                   /\ (j = Len(s) \/ s[j + 1] # "\"")
                   /\ (j - i + 1) % 2 = 0

\* A single literal phrase: "...", with every double quote inside doubled.
IsLiteralPhrase(s) ==
    /\ Len(s) >= 2
    /\ s[1] = "\"" /\ s[Len(s)] = "\""
    /\ QuotesDoubled(Slice(s, 2, Len(s) - 1))

\* C13: a free-text query with a matcher-significant punctuation character
\* is sanitized to a single well-formed literal phrase.
C13_SpecialBecomesPhrase ==
    (spc = "done" /\ HasSpecial(squery)) => IsLiteralPhrase(sout)

\* C13 for the queries that do not already start and end with a double quote.
C13_UnquotedSpecialBecomesPhrase ==
    (spc = "done" /\ HasSpecial(squery)
        /\ ~(StartsWith(Strip(squery), <<"\"">>) /\ EndsWith(Strip(squery), <<"\"">>)))
        => IsLiteralPhrase(sout)


\* ---- free-text ordering ----

\* A free-text search answered from the index has just run.
IndexSearched ==
    /\ lastSearch' # lastSearch
    /\ lastSearch'.mode = "natural"
    /\ lastSearch'.error = ""
    /\ ~IsIssueKey(Strip(lastSearch'.query))

RowOfKey(key) == CHOOSE r \in issues' : r.key = key

\* C14: in the results of a free-text search, rows of equal relevance (the
\* index holds the same texts for them) come in descending order of `updated`.
C14_TiesByUpdatedDesc ==
    [][IndexSearched =>
          \A i, j \in DOMAIN lastSearch'.results :
              (/\ i < j
               /\ RankKey(RowOfKey(lastSearch'.results[i].key))
                    = RankKey(RowOfKey(lastSearch'.results[j].key)))
              => ~StrLess(lastSearch'.results[i].updated,
                          lastSearch'.results[j].updated)]_vars


\* ---- pagination of the filter mode ----

RECURSIVE JoinPages(_, _)
JoinPages(pages, k) ==
    IF k < 0 THEN <<>> ELSE JoinPages(pages, k - 1) \o pages[k]

\* The pages of a filter at offsets 0, L, 2L, ..., read by the plan `ties`
\* from the store as it is: each request has one outcome, none fails, the
\* pages share no row, joined they hold every matching row once, newest
\* `updated` first, and every page reports the number of matching rows.
PagesPartition(parsed, jql_query, L, ties) ==
    LET hits == {r \in issues : WhereSelects(parsed.sql, parsed.params, r)}
        outcomes == [k \in 0..MaxRowid |->
                        execute_jql(parsed, jql_query, L, k * L, ties)]
        page == [k \in 0..MaxRowid |-> (CHOOSE o \in outcomes[k] : TRUE).results]
        all == JoinPages(page, MaxRowid)
    IN  /\ \A k \in 0..MaxRowid :
               /\ Cardinality(outcomes[k]) = 1
               /\ \A o \in outcomes[k] :
                      o.error = "" /\ o.total = Cardinality(hits)
        /\ \A k1, k2 \in 0..MaxRowid :
               k1 # k2 => {page[k1][i].key : i \in DOMAIN page[k1]}
                            \cap {page[k2][i].key : i \in DOMAIN page[k2]} = {}
        /\ Len(all) = Cardinality(hits)
        /\ {all[i] : i \in DOMAIN all} = {DeclaredColumns(r) : r \in hits}
        /\ \A i, j \in DOMAIN all :
               i < j => ~StrLess(all[i].updated, all[j].updated)

\* The query of the last search is a filter the compiler accepts, its page
\* size is at least one, and the store can be read.
JqlAccepted(parsed) ==
    lastSearch.mode = "jql" /\ lastSearch.limit >= 1 /\ parsed.ok /\ Initialized

JqlPagination(parsed) ==
    JqlAccepted(parsed)
    => \A ties \in TieOrders :
           PagesPartition(parsed, lastSearch.query, lastSearch.limit, ties)

RegexSearched ==
    /\ lastSearch' # lastSearch
    /\ lastSearch'.mode = "regex"
    /\ RegexCompiles(lastSearch'.query)
    /\ Initialized'

\* The search that just ended reached a checkpoint after the deadline: a call
\* of regexp_with_timeout by the page statement or by the count statement, or
\* the check between the two.
TimeoutObserved ==
    \/ lastSearch'.clock \in {"late_in_page", "late_after_page"}
    \/ lastSearch'.clock = "late_in_count" /\ issues' # {}

\* C16: a pattern search that observes the deadline passed at a checkpoint
\* ends with an error and returns no rows and no total.
C16_TimeoutAborts ==
    [][(RegexSearched /\ TimeoutObserved)
          => /\ lastSearch'.error # ""
             /\ lastSearch'.results = <<>>
             /\ lastSearch'.total = 0]_vars

\* A search ran out of time while the count statement was evaluating rows,
\* after the page statement had found rows, and ended with an error.
C16_Witness ==
    /\ lastSearch.mode = "regex"
    /\ lastSearch.clock = "late_in_count"
    /\ lastSearch.error = "RegexError"
    /\ \E r \in issues : RegexSearch(lastSearch.query, r.summary)

\* C17: whichever checkpoint observes the deadline passed, the error carries
\* the timeout condition, which is not the error of an invalid pattern.
C17_TimeoutIsDistinctCondition ==
    [][(RegexSearched /\ TimeoutObserved)
          => lastSearch'.message = msg_timeout]_vars

\* The part that holds: the message of a timed-out search is never the one of
\* an invalid pattern.
C17_TimeoutIsNotInvalidPattern ==
    [][(RegexSearched /\ TimeoutObserved)
          => lastSearch'.message # msg_invalid]_vars


\* ---- limit and offset of a request ----

\* The last search was a request to /api/search.
Requested == lastSearch.status # 0

\* C18: whatever limit a request asks for (below zero, zero, above the
\* maximum), in every mode, the response holds at most search_max_results
\* rows.
C18_AtMostMaxResults ==
    Requested => Len(lastSearch.results) <= MaxResults

\* The part that holds: a request whose limit is not below zero gets at most
\* search_max_results rows.
C18_NonNegativeLimitClamped ==
    (Requested /\ lastSearch.limit >= 0) => Len(lastSearch.results) <= MaxResults

\* C19: a request with an offset below zero is answered with an error, in
\* every mode, and with no rows.
C19_NegativeOffsetIsError ==
    (Requested /\ lastSearch.offset < 0)
    => /\ lastSearch.error # ""
       /\ lastSearch.status # 200
       /\ lastSearch.results = <<>>

\* The part that holds: a request without a query is answered with an error
\* and no rows, whatever its offset.
C19_MissingQueryIsError ==
    (Requested /\ lastSearch.query = <<>>)
    => /\ lastSearch.error # ""
       /\ lastSearch.status = 400
       /\ lastSearch.results = <<>>


\* ---- purge of soft-deleted rows ----

\* The DELETE of a purge has just run and the purge returns.
Purged == cpc = "counted" /\ cpc' = "done"

\* C20: a purge removes exactly the rows that were soft-deleted before its
\* cutoff (now minus days at the call; with zero days, every row soft-deleted
\* before the call), leaves every other row as it was, and returns the number
\* of rows it removed, also when other connections write between its count
\* and its delete.
C20_PurgeRemovesAndCounts ==
    [][Purged =>
          /\ issues' = issues \ DeletedBefore(ccutoff)
          /\ \A r \in issues \ issues' : r.is_deleted
          /\ ccount = Cardinality(issues \ issues')]_vars

\* The part that holds: the rows removed are exactly the soft-deleted rows
\* older than the cutoff, whatever was written in between.
C20_PurgeRemovesExactlyOld ==
    [][Purged =>
          /\ issues' = issues \ DeletedBefore(ccutoff)
          /\ \A r \in issues \ issues' : r.is_deleted
          /\ cremoved' = {r.key : r \in issues \ issues'}]_vars


\* ---- initialize() and the sync metadata ----

\* C21: initialize() on an initialised store, at any point among the other
\* store calls, leaves every issue row, every shadow entry and the metadata
\* values as they are, and the sync_metadata table holds exactly one row
\* from the first initialize() on.
C21_InitializeIdempotent ==
    /\ [](Initialized => Len(meta) = 1)
    /\ [][(Initialized /\ initialize)
             => (issues' = issues /\ fts' = fts /\ meta' = meta)]_vars

\* An initialised store that holds a row, a shadow entry and the outcome of a
\* sync, on which initialize() changes nothing.
C21_Witness ==
    /\ Initialized
    /\ issues # {} /\ fts # {}
    /\ meta[1].last_sync_time # NoTime
    /\ meta[1].issues_processed > 0
    /\ create_metadata_table(meta) = meta

\* What update_sync_metadata(sync_query, is_full_sync, sync_stats,
\* duration_seconds) leaves in the metadata row.
OutcomeRecorded(sync_query, is_full_sync, sync_stats, duration_seconds) ==
    /\ Len(meta') = 1
    /\ meta'[1].last_sync_time = now
    /\ meta'[1].last_sync_query = sync_query
    /\ meta'[1].issues_processed = StatsGet(sync_stats, "processed")
    /\ meta'[1].issues_added = StatsGet(sync_stats, "added")
    /\ meta'[1].issues_updated = StatsGet(sync_stats, "updated")
    /\ meta'[1].issues_deleted = StatsGet(sync_stats, "deleted")
    /\ meta'[1].sync_duration_seconds = duration_seconds
    /\ meta'[1].last_full_sync = (IF is_full_sync THEN now ELSE meta[1].last_full_sync)
    /\ issues' = issues
    /\ fts' = fts

\* C22: update_sync_metadata overwrites the time and query of the last sync,
\* the four counters and the duration; it stamps last_full_sync if is_full_sync
\* and leaves it as it was otherwise; it changes no issue row and no shadow
\* entry.
C22_SyncOutcomeRecorded ==
    [][\A q \in SyncQueries, full \in BOOLEAN, st \in SyncStats, dur \in Durations :
          update_sync_metadata(q, full, st, dur) => OutcomeRecorded(q, full, st, dur)]_vars

\* After a full sync at time 0 an incremental outcome was recorded at time 1
\* over a store with rows: last_full_sync kept its value.
C22_Witness ==
    /\ Initialized
    /\ issues # {}
    /\ meta[1].last_sync_time = 1
    /\ meta[1].last_full_sync = 0
    /\ meta[1].issues_processed = 2


\* ---- mapping of one upstream record ----

\* The columns a sub-field of the record is mapped to.
ColumnsOf(sub_field) ==
    CASE sub_field = "status" -> {"status_id", "status_name"}
      [] sub_field = "priority" -> {"priority_id", "priority_name"}
      [] sub_field = "assignee" ->
             {"assignee_key", "assignee_name", "assignee_display_name"}
      [] sub_field = "reporter" ->
             {"reporter_key", "reporter_name", "reporter_display_name"}
      [] sub_field \in {"comment", "comment.comments", "comment.author"} -> {"comments"}
      [] sub_field = "labels" -> {"labels"}
      [] sub_field = "components" -> {"components"}
      [] sub_field = "fixVersions" -> {"fix_versions"}
      [] sub_field = "versions" -> {"affected_versions"}
      [] sub_field = "project" -> {"project_key", "project_name"}
      [] sub_field = "issuetype" -> {"issue_type"}
      [] OTHER -> {sub_field}

NullOrEmpty(x) == x.t = "none" \/ (x.t = "str" /\ x.v = <<>>)

\* The row of the record whose sub-fields are all well-formed.
GoodRow == ProcessIssueData(IssueWith("status", "expected")).v

\* The run completed with a row in which the columns of every other
\* sub-field are those of the well-formed record and, when the sub-field is
\* missing or null, its own columns are null or empty.
MappedAround(run) ==
    /\ ~IsRaise(run.out)
    /\ DOMAIN run.out.v = DOMAIN GoodRow
    /\ \A c \in DOMAIN GoodRow \ ColumnsOf(run.sub_field) : run.out.v[c] = GoodRow[c]
    /\ (run.shape \in {"missing", "null"} /\ run.sub_field # "comment.author")
       => \A c \in ColumnsOf(run.sub_field) : NullOrEmpty(run.out.v[c])

\* C23: for a record with a key and a fields object in which one sub-field is
\* missing, null or of an unexpected shape, _process_issue_data completes and
\* returns a row with that field null or empty and all other fields mapped
\* as usual.
C23_MappingNeverAborts == mrun.pc = "done" => MappedAround(mrun)

\* The part that holds: a sub-field that is missing, or null anywhere but at
\* `comment` or a comment's `author`, yields its columns null or empty and
\* leaves the rest of the row as usual.
C23_MissingOrNullIsMapped ==
    (/\ mrun.pc = "done"
     /\ \/ mrun.shape = "missing"
        \/ mrun.shape = "null" /\ mrun.sub_field \notin {"comment", "comment.author"})
    => MappedAround(mrun)

---------------------------------------------------------------------------
(* Properties of load_config and the created tables (checked under         *)
(* SpecConfig)                                                             *)

\* The file writes both lists and fields.search names a field that
\* fields.core does not.
WritesSearchOutsideCore(data) ==
    /\ data.t = "dict"
    /\ "fields" \in DOMAIN data.v
    /\ data.v["fields"].t = "dict"
    /\ {"core", "search"} \subseteq DOMAIN data.v["fields"].v
    /\ LET core == data.v["fields"].v["core"]
           searched == data.v["fields"].v["search"]
       IN  /\ core.t = "list"
           /\ searched.t = "list"
           /\ \E i \in DOMAIN searched.v : ~PyIn(core, searched.v[i])

\* C24: a configuration whose search-field list names a field that is not in
\* its core-field list is not accepted by load_config.
C24_SearchOutsideCoreRejected ==
    (crun.pc \in {"done", "created"} /\ WritesSearchOutsideCore(crun.data))
        => crun.out # "Config"

\* The consequence C24 draws: once the tables of an accepted configuration
\* are created, every column of issues_fts is a column of issues.
ShadowColumnsAreIssueColumns ==
    (crun.pc = "created" /\ ~IsRaise(crun.issues_columns) /\ ~IsRaise(crun.fts_columns))
        => crun.fts_columns.v \subseteq crun.issues_columns.v

\* C26: load_config ends in a Config or in ConfigError, never in another
\* exception.
C26_ConfigOrConfigError ==
    crun.pc \in {"done", "created"} => crun.out \in {"Config", "ConfigError"}

\* The part of C26 that holds: a missing file, invalid YAML and an unset
\* variable end in ConfigError, and a returned Config has a jira url,
\* username and pat and a sync project_key or jql.
C26_FileFaultsAndAcceptedConfig ==
    crun.pc \in {"done", "created"} =>
        /\ crun.file.kind \in {"missing", "invalid_yaml", "unset_var", "empty"}
               => crun.out = "ConfigError"
        /\ crun.out = "Config" =>
               LET jira == crun.data.v["jira"]
                   sync_config == crun.data.v["sync"]
               IN  /\ \A name \in {"url", "username", "pat"} : Truthy(DictGet(jira, name, PyNone))
                   /\ \E name \in {"project_key", "jql"} :
                          Truthy(DictGet(sync_config, name, PyNone))

---------------------------------------------------------------------------
(* Properties of the sync command (checked under SpecSync)                 *)

\* The counters of the loop add up.
SyncCounters ==
    /\ sync.synced_count = sync.added_count + sync.updated_count
    /\ sync.synced_count + sync.error_count = sync.yielded

\* The loop has ended when every issue the upstream handed over was tried.
SyncLoopComplete ==
    sync.pc \in {"finishing", "done"} => sync.yielded = sync.start_at

C29_IncrementalLosesNoChange ==
    (sync.pc = "started" /\ sync.mode.incremental /\ sync.previous.pc = "done")
        => \A key \in Keys :
               ~Mirrored(sync.upstream, key) => sync.upstream[key] >= sync.since

\* The same with no failed upsert in the completed run: only upstream
\* modifications made while it ran are unmirrored.
IncrementalLosesNoEdit ==
    (sync.pc = "started" /\ sync.mode.incremental /\ sync.previous.pc = "done"
        /\ sync.previous.error_count = 0)
        => \A key \in Keys :
               ~Mirrored(sync.upstream, key) => sync.upstream[key] >= sync.since

\* C30: a full re-sync of an initialised store that ends at the connection
\* test or at the validation of the query leaves rows, shadow and metadata
\* as they were when it started.
C30_FailedFullResyncChangesNothing ==
    (sync.pc = "exited" /\ sync.mode.full /\ sync.before.meta # <<>>)
        => /\ issues = sync.before.issues
           /\ fts = sync.before.fts
           /\ meta = sync.before.meta

---------------------------------------------------------------------------
(* Properties of the rate limiter (checked under SpecLimiter)              *)

\* The admitted requests of a client with a timestamp in [from, from + window].
AdmittedWithin(client_id, from, window) ==
    {i \in DOMAIN limiter.admitted[client_id] :
        /\ from <= limiter.admitted[client_id][i]
        /\ limiter.admitted[client_id][i] <= from + window}

\* Whether a request of the client at `time` would be admitted, the limiter
\* being as it is.
WouldAdmit(lim, client_id, time) ==
    is_allowed(lim, client_id, get_rate_limit_for_client(client_id), Window, time).last.allowed

\* C28: a client has at most `limit` admitted requests in any `window`
\* seconds; a request is denied exactly when `limit` admitted requests lie in
\* the window before it; a denied request is not recorded and leaves the
\* answer to every later request as it would have been without it.
C28_AtMostLimitPerWindow ==
    /\ [](\A c \in Clients, t \in 0..LimiterMaxTime :
              Cardinality(AdmittedWithin(c, t, Window)) <= get_rate_limit_for_client(c))
    /\ [][\A c \in Clients :
              limiter'.calls # limiter.calls /\ limiter'.last.key = c =>
                  /\ limiter'.last.allowed <=>
                         Cardinality(AdmittedWithin(c, limiter.clock - Window, Window))
                             < get_rate_limit_for_client(c)
                  /\ ~limiter'.last.allowed =>
                         /\ limiter'.admitted = limiter.admitted
                         /\ \A i \in DOMAIN limiter'.requests[c] :
                                \E j \in DOMAIN limiter.requests[c] :
                                    limiter'.requests[c][i] = limiter.requests[c][j]
                         /\ \A t \in limiter.clock..(LimiterMaxTime + Window) :
                                WouldAdmit(limiter', c, t) = WouldAdmit(limiter, c, t)]_vars

\* The anonymous client was admitted `limit` times, denied within the
\* window, and admitted again once the window had passed.
C28_Witness ==
    /\ Len(limiter.admitted["ip"]) = AnonymousLimit + 1
    /\ limiter.calls > AnonymousLimit + 1
    /\ limiter.blocked_until["ip"] # NoTime
    /\ limiter.last.key = "ip"
    /\ limiter.last.allowed

---------------------------------------------------------------------------
(* Properties of the filter interpreter on quoted values (checked under    *)
(* SpecQuoted)                                                             *)

\* The predicate of one written condition: its field's column, the operator
\* written between field and value, and the value text as written.
WrittenCondition(c) ==
    LET col == ColumnOfField(c.field) IN
    IF c.op = op_in
    THEN InCondition(col, kw_LP \o Join(c.vals, <<",", " ">>) \o kw_RP)
    ELSE IF c.op = op_tilde THEN LikeCondition(col, c.vals[1])
    ELSE SimpleCondition(col, c.op, c.vals[1])

\* The predicate of a written query: its conditions' predicates joined by AND.
WrittenQuery(q) ==
    Compiled(Join([i \in 1..Len(q) |-> WrittenCondition(q[i]).sql],
                  <<" ">> \o kw_AND \o <<" ">>),
             Flatten([i \in 1..Len(q) |-> WrittenCondition(q[i]).params]))

\* Does a value hold an operator token, AND or IN between spaces?
HoldsToken(raw) ==
    \E i \in 1..Len(operators) : OperatorPresent(raw, operators[i][1])
    \/ Len(ReSplit(raw, kw_AND)) > 1

\* C27: a query of the base grammar over mapped fields is compiled to the
\* predicates of its written conditions: split only at the AND connectives,
\* each condition with the operator written between its field and its value,
\* also when a quoted value holds spaces, an operator token, AND or IN.
C27_ParsedAsWritten ==
    jpc \in {"parsed", "rejected", "done"} => jres = WrittenQuery(jq)

\* The part of C27 that holds: queries none of whose values holds an
\* operator token, AND or IN between spaces are compiled as written.
ParsedAsWrittenWithoutTokens ==
    (jpc \in {"parsed", "rejected", "done"}
        /\ \A i \in 1..Len(jq) : \A j \in 1..Len(jq[i].vals) : ~HoldsToken(jq[i].vals[j]))
        => jres = WrittenQuery(jq)

===========================================================================
